---- MODULE Spec2Model ----
(***************************************************************************)
(* Model of the tabular reconciliation engine of mark-scherer/housing:     *)
(* GoogleSheetsClient (src/frontend/google_sheets_client.py) driving a     *)
(* human-edited spreadsheet (the sink).                                    *)
(*                                                                         *)
(* A string is a sequence of one-character strings, so that the header     *)
(* sanitisation (lower, strip, replace) is computed character by character *)
(* as the code computes it.  The empty string is << >>.                    *)
(***************************************************************************)
EXTENDS Integers, Sequences, FiniteSets, TLC

(***************************************************************************)
(* Bounds of the model.                                                    *)
(***************************************************************************)
MaxData == 2        \* data rows below the header row in the initial sink
MaxBatch == 2       \* records in one smart_update batch

(***************************************************************************)
(* Strings.                                                                *)
(***************************************************************************)
Str(c) == <<c>>
EMPTY == << >>
None == <<"None">>          \* Python's None: no string of characters equals it

\* str.lower() on one character
LowerChar(c) ==
    CASE c = "K" -> "k"
      [] c = "U" -> "u"
      [] c = "A" -> "a"
      [] c = "B" -> "b"
      [] c = "N" -> "n"
      [] c = "S" -> "s"
      [] c = "T" -> "t"
      [] OTHER -> c

RECURSIVE Lower(_)
Lower(s) == IF s = << >> THEN << >> ELSE <<LowerChar(Head(s))>> \o Lower(Tail(s))

RECURSIVE LStrip(_)
LStrip(s) == IF s # << >> /\ Head(s) = " " THEN LStrip(Tail(s)) ELSE s

RECURSIVE RStrip(_)
RStrip(s) ==
    IF s # << >> /\ s[Len(s)] = " " THEN RStrip(SubSeq(s, 1, Len(s) - 1)) ELSE s

Strip(s) == RStrip(LStrip(s))

RECURSIVE ReplaceSpace(_)
ReplaceSpace(s) ==
    IF s = << >> THEN << >>
    ELSE <<IF Head(s) = " " THEN "_" ELSE Head(s)>> \o ReplaceSpace(Tail(s))

\* input_header.lower().strip().replace(' ', '_')
SanitizeHeader(input_header) == ReplaceSpace(Strip(Lower(input_header)))

IsHeadersMatch(header_1, header_2) == SanitizeHeader(header_1) = SanitizeHeader(header_2)

(***************************************************************************)
(* Ordered dictionaries: a sequence of <<key, value>> pairs with distinct  *)
(* keys, in insertion order.  Assigning to an existing key keeps the key's *)
(* position and replaces the value (Python dict / OrderedDict).            *)
(***************************************************************************)
DictKeys(d) == {d[i][1] : i \in 1..Len(d)}
DictHas(d, key) == \E i \in 1..Len(d) : d[i][1] = key
DictGet(d, key) == d[CHOOSE i \in 1..Len(d) : d[i][1] = key][2]
DictSet(d, key, val) ==
    IF DictHas(d, key)
    THEN [i \in 1..Len(d) |-> IF d[i][1] = key THEN <<key, val>> ELSE d[i]]
    ELSE Append(d, <<key, val>>)
\* dict.get(key): None when the key is absent
DictGetOrNone(d, key) == IF DictHas(d, key) THEN DictGet(d, key) ELSE None
\* Python truthiness of a cell value: None and '' are falsy
Truthy(v) == v # None /\ v # EMPTY

(***************************************************************************)
(* Header Locator: GoogleSheetsClient._find_headers.                       *)
(***************************************************************************)
\* line 413: some cell of the row matches some possible header
RowHasHeaderMatch(existing_row, possible_headers) ==
    \E j \in 1..Len(existing_row) : \E p \in 1..Len(possible_headers) :
        IsHeadersMatch(possible_headers[p], existing_row[j])

\* lines 421-422: every cell of the row, sanitized, mapped to its 0-based column
RECURSIVE TakeHeaders(_, _, _)
TakeHeaders(existing_row, j, acc) ==
    IF j > Len(existing_row) THEN acc
    ELSE TakeHeaders(existing_row, j + 1,
                     DictSet(acc, SanitizeHeader(existing_row[j]), j - 1))

\* lines 409-430: index (0-based) of the first row with a match, or -1 (None)
RECURSIVE ScanRows(_, _, _)
ScanRows(sheet_data, possible_headers, i) ==
    IF i > Len(sheet_data) THEN -1
    ELSE IF RowHasHeaderMatch(sheet_data[i], possible_headers) THEN i - 1
    ELSE ScanRows(sheet_data, possible_headers, i + 1)

\* NotHeaderRowNum that does not see None
NotHeaderRowNumZeroOnly(header_row_num) == header_row_num = 0

\* line 432: "if not header_row_num" is true for None and for 0
NotHeaderRowNum(header_row_num) == header_row_num = -1 \/ header_row_num = 0

FindHeaders(sheet_data, possible_headers) ==
    LET header_row_num == ScanRows(sheet_data, possible_headers, 1)
        header_to_col_num ==
            IF header_row_num = -1 THEN << >>
            ELSE TakeHeaders(sheet_data[header_row_num + 1], 1, << >>)
    IN  IF NotHeaderRowNum(header_row_num)
        THEN [raised |-> TRUE, header_to_col_num |-> << >>, header_row_num |-> -1]
        ELSE [raised |-> FALSE, header_to_col_num |-> header_to_col_num,
              header_row_num |-> header_row_num]

(***************************************************************************)
(* A1 notation: GoogleSheetsClient.row_col_num_to_A1 and the sink's        *)
(* reading of it.  An A1 cell reference is [letter, number]: the column    *)
(* letter chr(ord('A') + col_num) and the 1-based row number.              *)
(***************************************************************************)
Letters == <<"A", "B", "C", "D", "E", "F", "G", "H", "I", "J", "K", "L", "M",
             "N", "O", "P", "Q", "R", "S", "T", "U", "V", "W", "X", "Y", "Z">>

ChrOrdAPlus(col_num) == IF col_num + 1 \in 1..Len(Letters) THEN Letters[col_num + 1] ELSE "?"

RowColNumToA1(row_num, col_num) == [letter |-> ChrOrdAPlus(col_num), number |-> row_num + 1]

\* the sink's reading of an A1 reference: 0-based row and column
A1Row(a1) == a1.number - 1
A1Col(a1) == (CHOOSE i \in 1..Len(Letters) : Letters[i] = a1.letter) - 1

(***************************************************************************)
(* Keyed Row Index: GoogleSheetsClient.smart_get and the lookup map of     *)
(* smart_update.                                                           *)
(***************************************************************************)
\* lines 120-127: the keyed mapping of one grid row
RECURSIVE RowResult(_, _, _, _)
RowResult(row_data, header_to_col_num, h, row_result) ==
    IF h > Len(header_to_col_num) THEN row_result
    ELSE LET header == header_to_col_num[h][1]
             col_num == header_to_col_num[h][2]
         IN  IF col_num >= Len(row_data)
             THEN RowResult(row_data, header_to_col_num, h + 1, row_result)
             ELSE IF Truthy(row_data[col_num + 1])
             THEN RowResult(row_data, header_to_col_num, h + 1,
                            DictSet(row_result, header, row_data[col_num + 1]))
             ELSE RowResult(row_data, header_to_col_num, h + 1, row_result)

\* SmartGetFrom with the test of line 128 left out
RECURSIVE SmartGetFromKeepsBlank(_, _, _, _)
SmartGetFromKeepsBlank(sheet_data, header_to_col_num, i, result) ==
    IF i >= Len(sheet_data) THEN result
    ELSE SmartGetFromKeepsBlank(sheet_data, header_to_col_num, i + 1,
             Append(result, RowResult(sheet_data[i + 1], header_to_col_num, 1, << >>)))

\* lines 117-130: rows header_row_num+1 .. max_row-1, empty mappings dropped
RECURSIVE SmartGetFrom(_, _, _, _)
SmartGetFrom(sheet_data, header_to_col_num, i, result) ==
    IF i >= Len(sheet_data) THEN result
    ELSE LET row_result == RowResult(sheet_data[i + 1], header_to_col_num, 1, << >>)
         IN  SmartGetFrom(sheet_data, header_to_col_num, i + 1,
                          IF row_result # << >> THEN Append(result, row_result) ELSE result)

SmartGet(sheet_data, header_to_col_num, header_row_num) ==
    SmartGetFrom(sheet_data, header_to_col_num, header_row_num + 1, << >>)

\* RowToPrimaryKeyValues comparing the first key field only
RowToPrimaryKeyValuesFirstKeyOnly(row, primary_keys) ==
    [p \in 1..Len(primary_keys) |-> DictGetOrNone(row, primary_keys[1])]

\* line 186: tuple(row[key] if key in row else None for key in primary_keys)
RowToPrimaryKeyValues(row, primary_keys) ==
    [p \in 1..Len(primary_keys) |->
        IF DictHas(row, primary_keys[p]) THEN DictGet(row, primary_keys[p]) ELSE None]

\* lines 195, 204: any(key in row for key in primary_keys)
AnyKeyIn(row, primary_keys) == \E p \in 1..Len(primary_keys) : DictHas(row, primary_keys[p])

\* line 197: the row number recorded for position row_num of the smart_get result
IndexedRowNum(row_num, header_row_num) == row_num + header_row_num + 1

\* lines 192-197: primary_keys_to_row_num, a dict from key tuple to row number
RECURSIVE BuildIndex(_, _, _, _, _)
BuildIndex(current_sheet_data_smart, primary_keys, header_row_num, row_num, acc) ==
    IF row_num >= Len(current_sheet_data_smart) THEN acc
    ELSE LET current_row == current_sheet_data_smart[row_num + 1]
         IN  BuildIndex(current_sheet_data_smart, primary_keys, header_row_num, row_num + 1,
                 IF AnyKeyIn(current_row, primary_keys)
                 THEN DictSet(acc, RowToPrimaryKeyValues(current_row, primary_keys),
                              IndexedRowNum(row_num, header_row_num))
                 ELSE acc)

(***************************************************************************)
(* Reconciler: the classification loop of smart_update (lines 201-233).    *)
(***************************************************************************)
\* CellUpdates with the primary-key test of line 218 left out
RECURSIVE CellUpdatesKeysToo(_, _, _, _, _, _)
CellUpdatesKeysToo(updated_row, primary_keys, header_to_col_num, row_num, f, acc) ==
    IF f > Len(updated_row) THEN acc
    ELSE LET header == updated_row[f][1]
             updated_cell == updated_row[f][2]
         IN  IF ~DictHas(header_to_col_num, header)
             THEN CellUpdatesKeysToo(updated_row, primary_keys, header_to_col_num, row_num,
                                     f + 1, acc)
             ELSE CellUpdatesKeysToo(updated_row, primary_keys, header_to_col_num, row_num,
                      f + 1,
                      Append(acc, [range |-> RowColNumToA1(row_num, DictGet(header_to_col_num, header)),
                                   values |-> updated_cell,
                                   record |-> 0]))

\* lines 216-230: the single-cell writes of one record on the update path
RECURSIVE CellUpdates(_, _, _, _, _, _)
CellUpdates(updated_row, primary_keys, header_to_col_num, row_num, f, acc) ==
    IF f > Len(updated_row) THEN acc
    ELSE LET header == updated_row[f][1]
             updated_cell == updated_row[f][2]
         IN  IF (\E p \in 1..Len(primary_keys) : primary_keys[p] = header)
                \/ ~DictHas(header_to_col_num, header)
             THEN CellUpdates(updated_row, primary_keys, header_to_col_num, row_num, f + 1, acc)
             ELSE CellUpdates(updated_row, primary_keys, header_to_col_num, row_num, f + 1,
                      Append(acc, [range |-> RowColNumToA1(row_num, DictGet(header_to_col_num, header)),
                                   values |-> updated_cell,
                                   record |-> 0]))

\* RouteOf with an unknown record queued for append whatever upsert is
RouteOfIgnoresUpsert(updated_row, primary_keys, primary_keys_to_row_num, header_to_col_num, upsert) ==
    IF ~AnyKeyIn(updated_row, primary_keys) THEN "MissingPrimaryKey"
    ELSE IF ~DictHas(primary_keys_to_row_num, RowToPrimaryKeyValues(updated_row, primary_keys))
    THEN "append"
    ELSE IF CellUpdates(updated_row, primary_keys, header_to_col_num, 0, 1, << >>) = << >>
    THEN "NoUpdatableColumns"
    ELSE "update"

\* RouteOf with the test of line 204 left out
RouteOfNoKeyCheck(updated_row, primary_keys, primary_keys_to_row_num, header_to_col_num, upsert) ==
    IF ~DictHas(primary_keys_to_row_num, RowToPrimaryKeyValues(updated_row, primary_keys))
    THEN (IF upsert THEN "append" ELSE "UnknownRecord")
    ELSE IF CellUpdates(updated_row, primary_keys, header_to_col_num, 0, 1, << >>) = << >>
    THEN "NoUpdatableColumns"
    ELSE "update"

\* RouteOf with the test of line 232 left out
RouteOfNoUpdatableCheck(updated_row, primary_keys, primary_keys_to_row_num, header_to_col_num, upsert) ==
    IF ~AnyKeyIn(updated_row, primary_keys) THEN "MissingPrimaryKey"
    ELSE IF ~DictHas(primary_keys_to_row_num, RowToPrimaryKeyValues(updated_row, primary_keys))
    THEN (IF upsert THEN "append" ELSE "UnknownRecord")
    ELSE "update"

\* the route of one record: "update", "append" or the error it raises
RouteOf(updated_row, primary_keys, primary_keys_to_row_num, header_to_col_num, upsert) ==
    IF ~AnyKeyIn(updated_row, primary_keys) THEN "MissingPrimaryKey"
    ELSE IF ~DictHas(primary_keys_to_row_num, RowToPrimaryKeyValues(updated_row, primary_keys))
    THEN (IF upsert THEN "append" ELSE "UnknownRecord")
    ELSE IF CellUpdates(updated_row, primary_keys, header_to_col_num, 0, 1, << >>) = << >>
    THEN "NoUpdatableColumns"
    ELSE "update"

\* IsError that lets a record without updatable columns pass
IsErrorUnlessNoUpdatable(route) == route \in {"MissingPrimaryKey", "UnknownRecord"}

IsError(route) == route \in {"MissingPrimaryKey", "UnknownRecord", "NoUpdatableColumns"}

\* AfterRouting with the outcome marked on the record
MarkedWithOutcome(updated_row, route) == DictSet(updated_row, <<"o">>, Str(route))

\* lines 204-233: the loop only reads updated_row (key in, [], items()); the
\* caller's record is the same after it
AfterRouting(updated_row, route) == updated_row

\* lines 203-233: the loop over _values, stopping at the first record that raises.
\* st = [raised, update_requests, rows_to_append, routes, values]; values is the
\* caller's list as the loop leaves it
RECURSIVE Classify(_, _, _, _, _, _, _)
Classify(values, primary_keys, primary_keys_to_row_num, header_to_col_num, upsert, i, st) ==
    IF i > Len(values) THEN st
    ELSE LET updated_row == values[i]
             route == RouteOf(updated_row, primary_keys, primary_keys_to_row_num,
                              header_to_col_num, upsert)
             row_num == DictGet(primary_keys_to_row_num,
                                RowToPrimaryKeyValues(updated_row, primary_keys))
             ups == CellUpdates(updated_row, primary_keys, header_to_col_num, row_num, 1, << >>)
             after == AfterRouting(updated_row, route)
         IN  IF IsError(route)
             THEN [st EXCEPT !.raised = route, !.routes = Append(@, route),
                             !.values[i] = after]
             ELSE IF route = "append"
             THEN Classify(values, primary_keys, primary_keys_to_row_num, header_to_col_num,
                           upsert, i + 1,
                           [st EXCEPT !.rows_to_append = Append(@, after),
                                      !.routes = Append(@, route),
                                      !.values[i] = after])
             ELSE Classify(values, primary_keys, primary_keys_to_row_num, header_to_col_num,
                           upsert, i + 1,
                           [st EXCEPT !.update_requests =
                                          @ \o [u \in 1..Len(ups) |-> [ups[u] EXCEPT !.record = i]],
                                      !.routes = Append(@, route),
                                      !.values[i] = after])

(***************************************************************************)
(* The sink: the spreadsheet behind the Sheets API, a ragged grid of cell  *)
(* strings, rows and columns 0-based.  Its operations are modelled from    *)
(* the calls the client makes and the contracts its docstrings state.      *)
(***************************************************************************)
CellAt(grid, r, c) ==
    IF r >= 0 /\ r < Len(grid) /\ c >= 0 /\ c < Len(grid[r + 1]) THEN grid[r + 1][c + 1] ELSE EMPTY

Max2(a, b) == IF a >= b THEN a ELSE b

\* one cell written: the grid grows as needed; None (JSON null) leaves the cell alone
SetCell(grid, r, c, v) ==
    IF v = None THEN grid
    ELSE [i \in 1..Max2(Len(grid), r + 1) |->
            IF i = r + 1
            THEN [j \in 1..Max2(IF i <= Len(grid) THEN Len(grid[i]) ELSE 0, c + 1) |->
                    IF j = c + 1 THEN v ELSE CellAt(grid, r, j - 1)]
            ELSE IF i <= Len(grid) THEN grid[i] ELSE << >>]

\* values().get: trailing empty cells and trailing empty rows are not returned
RECURSIVE TrimRow(_)
TrimRow(row) ==
    IF row # << >> /\ row[Len(row)] = EMPTY THEN TrimRow(SubSeq(row, 1, Len(row) - 1)) ELSE row

RECURSIVE TrimRows(_)
TrimRows(grid) ==
    IF grid # << >> /\ grid[Len(grid)] = << >> THEN TrimRows(SubSeq(grid, 1, Len(grid) - 1))
    ELSE grid

SinkGet(grid) == TrimRows([i \in 1..Len(grid) |-> TrimRow(grid[i])])

\* values().batchUpdate: the single-cell writes, applied in order
RECURSIVE SinkBatchUpdate(_, _)
SinkBatchUpdate(grid, data) ==
    IF data = << >> THEN grid
    ELSE SinkBatchUpdate(
            SetCell(grid, A1Row(Head(data).range), A1Col(Head(data).range), Head(data).values),
            Tail(data))

\* values().update: a block of rows written from the top left cell _range
RECURSIVE WriteRow(_, _, _, _, _)
WriteRow(grid, r, c, row, k) ==
    IF k > Len(row) THEN grid
    ELSE WriteRow(SetCell(grid, r, c + k - 1, row[k]), r, c, row, k + 1)

RECURSIVE WriteRows(_, _, _, _, _)
WriteRows(grid, r, c, rows, i) ==
    IF i > Len(rows) THEN grid
    ELSE WriteRows(WriteRow(grid, r + i - 1, c, rows[i], 1), r, c, rows, i + 1)

SinkUpdate(grid, a1, rows) == WriteRows(grid, A1Row(a1), A1Col(a1), rows, 1)

\* The 'table' found to include cell (r, c): the columns of the unbroken run
\* of non-empty cells of row r around c, and the rows from r down while each
\* has a non-empty cell in those columns.
RECURSIVE TableLeft(_, _, _)
TableLeft(grid, r, c) ==
    IF c > 0 /\ CellAt(grid, r, c - 1) # EMPTY THEN TableLeft(grid, r, c - 1) ELSE c

RECURSIVE TableRight(_, _, _)
TableRight(grid, r, c) ==
    IF CellAt(grid, r, c + 1) # EMPTY THEN TableRight(grid, r, c + 1) ELSE c

RowInBand(grid, r, left, right) == \E c \in left..right : CellAt(grid, r, c) # EMPTY

RECURSIVE TableBottom(_, _, _, _)
TableBottom(grid, r, left, right) ==
    IF RowInBand(grid, r + 1, left, right) THEN TableBottom(grid, r + 1, left, right) ELSE r

\* where values().append starts writing: the top left cell of the range when it
\* is empty, else the bottom left of the table that includes it
AppendStart(grid, a1) ==
    LET r == A1Row(a1)
        c == A1Col(a1)
        left == TableLeft(grid, r, c)
        right == TableRight(grid, r, c)
    IN  IF CellAt(grid, r, c) = EMPTY THEN [row |-> r, col |-> c]
        ELSE [row |-> TableBottom(grid, r, left, right) + 1, col |-> left]

\* values().append: the rows pasted from the start cell, overwriting what is there
SinkAppend(grid, a1, rows) ==
    WriteRows(grid, AppendStart(grid, a1).row, AppendStart(grid, a1).col, rows, 1)

(***************************************************************************)
(* Sorting by a basic filter (GoogleSheetsClient.sort): the first row of   *)
(* the range is the filter's header row, the rows below it are reordered   *)
(* by the column, rows with a blank cell in it last.                       *)
(***************************************************************************)
MAX_ROWS == 999
MAX_COLS == 26

Alphabet == <<" ", "1", "2", "5", "9", "_", "a", "b", "f", "g", "k", "n", "s", "t", "u", "x", "y", "z",
              "A", "B", "K", "N", "S", "T", "U">>
CharOrd(c) == CHOOSE i \in 1..Len(Alphabet) : Alphabet[i] = c

RECURSIVE StrLess(_, _)
StrLess(a, b) ==
    IF b = << >> THEN FALSE
    ELSE IF a = << >> THEN TRUE
    ELSE IF Head(a) = Head(b) THEN StrLess(Tail(a), Tail(b))
    ELSE CharOrd(Head(a)) < CharOrd(Head(b))

\* row x goes before row y in the sorted order
SortsBefore(x, y, col_num, asc) ==
    LET vx == IF col_num < Len(x) THEN x[col_num + 1] ELSE EMPTY
        vy == IF col_num < Len(y) THEN y[col_num + 1] ELSE EMPTY
    IN  IF vx = EMPTY THEN FALSE
        ELSE IF vy = EMPTY THEN TRUE
        ELSE IF asc THEN StrLess(vx, vy) ELSE StrLess(vy, vx)

RECURSIVE InsertSorted(_, _, _, _)
InsertSorted(sorted, row, col_num, asc) ==
    IF sorted = << >> THEN <<row>>
    ELSE IF SortsBefore(row, Head(sorted), col_num, asc) THEN <<row>> \o sorted
    ELSE <<Head(sorted)>> \o InsertSorted(Tail(sorted), row, col_num, asc)

RECURSIVE SortRows(_, _, _, _)
SortRows(rows, col_num, asc, acc) ==
    IF rows = << >> THEN acc
    ELSE SortRows(Tail(rows), col_num, asc, InsertSorted(acc, Head(rows), col_num, asc))

Min2(a, b) == IF a <= b THEN a ELSE b

\* batchUpdate(setBasicFilter): range = [min_row, max_row, min_col, max_col]
SinkSort(grid, request) ==
    LET first == request.range.min_row + 1           \* 0-based first sorted row
        last == Min2(request.range.max_row, Len(grid)) - 1
    IN  IF first > last THEN grid
        ELSE SubSeq(grid, 1, first)
             \o SortRows(SubSeq(grid, first + 1, last + 1), request.dimensionIndex,
                         request.sortOrder = "ASCENDING", << >>)
             \o SubSeq(grid, last + 2, Len(grid))

\* SortOrder with the direction asked for ignored
SortOrderAlwaysAscending(asc) == "ASCENDING"

\* sort(), line 352
SortOrder(asc) == IF asc THEN "ASCENDING" ELSE "DESCENDING"

\* sort(), lines 353-363: the setBasicFilter request
SortRequest(col_num, grid_range, asc) ==
    [kind |-> "sort",
     arg |-> [dimensionIndex |-> col_num, sortOrder |-> SortOrder(asc), range |-> grid_range]]

\* SortRange starting below the header row
SortRangeBelowHeader(header_row_num) ==
    [min_row |-> header_row_num + 1, max_row |-> MAX_ROWS, min_col |-> 0, max_col |-> MAX_COLS]

\* smart_sort, lines 377-382: the range handed to sort()
SortRange(header_row_num) ==
    [min_row |-> header_row_num, max_row |-> MAX_ROWS, min_col |-> 0, max_col |-> MAX_COLS]

(***************************************************************************)
(* Appender: GoogleSheetsClient.smart_append, lines 311-334.               *)
(***************************************************************************)
\* line 312: the column of the first key of the ordered header map
MinColNum(header_to_col_num) == header_to_col_num[1][2]
\* line 313: the column of the last key of the ordered header map
MaxColNum(header_to_col_num) == header_to_col_num[Len(header_to_col_num)][2]

\* line 322: the index of row_data a header's value is stored at
TargetIndex(min_col_num, col_num) == min_col_num + col_num

\* lines 317-323: st = [raised, row_data, populated_cells]
RECURSIVE FillRow(_, _, _, _)
FillRow(row_to_append, header_to_col_num, h, st) ==
    IF h > Len(header_to_col_num) \/ st.raised # "none" THEN st
    ELSE LET header == header_to_col_num[h][1]
             col_num == header_to_col_num[h][2]
             cell_data == DictGetOrNone(row_to_append, header)
             at == TargetIndex(MinColNum(header_to_col_num), col_num)
         IN  IF ~Truthy(cell_data)
             THEN FillRow(row_to_append, header_to_col_num, h + 1, st)
             ELSE IF at >= Len(st.row_data)
             THEN [st EXCEPT !.raised = "IndexError"]
             ELSE FillRow(row_to_append, header_to_col_num, h + 1,
                          [st EXCEPT !.row_data[at + 1] = cell_data,
                                     !.populated_cells = @ + 1])

\* lines 317-330: the row built for one record, or the error raised
BuildRow(row_to_append, header_to_col_num) ==
    LET width == MaxColNum(header_to_col_num) + 1
        st == FillRow(row_to_append, header_to_col_num, 1,
                      [raised |-> "none",
                       row_data |-> [j \in 1..Max2(width, 0) |-> EMPTY],
                       populated_cells |-> 0])
    IN  IF st.raised = "none" /\ st.populated_cells = 0
        THEN [st EXCEPT !.raised = "NoMatchingColumns"]
        ELSE st

\* lines 315-330: st = [raised, append_data]
RECURSIVE BuildAppendData(_, _, _, _)
BuildAppendData(values, header_to_col_num, i, st) ==
    IF i > Len(values) THEN st
    ELSE LET built == BuildRow(values[i], header_to_col_num)
         IN  IF built.raised # "none" THEN [st EXCEPT !.raised = built.raised]
             ELSE BuildAppendData(values, header_to_col_num, i + 1,
                                  [st EXCEPT !.append_data = Append(@, built.row_data)])

\* line 333: table_tl, the A1 cell (header row, min_col_num)
TableTl(header_to_col_num, header_row_num) ==
    [letter |-> ChrOrdAPlus(MinColNum(header_to_col_num)), number |-> header_row_num + 1]

(***************************************************************************)
(* Inputs: the sheets and the batches the model draws from.                *)
(***************************************************************************)
k == <<"k">>
u == <<"u">>
a_b == <<"a", "_", "b">>
n == <<"n">>
sv == <<"s">>

\* update_google_sheet.py line 243: the sanitized field names of the producer
possible_headers == <<k, u, a_b, sv>>
\* UnitListing.PRIMARY_KEYS: a composite key
primary_keys == <<k, u>>

TitleRow == <<Str("T")>>
\* "K", "U ", "A b", "", "N": a table of three columns, an empty column and a
\* column N kept by people
HdrMain == <<Str("K"), <<"U", " ">>, <<"A", " ", "b">>, EMPTY, Str("N")>>
\* "", "K", "", "A b": the table starts in column B after an empty column
HdrGap == <<EMPTY, Str("K"), EMPTY, <<"A", " ", "b">>>>
HeaderRows == {HdrMain, HdrGap}

AboveChoices == {<< >>, <<TitleRow>>}

DataRows ==
    { << >>,                                                  \* a blank row
      <<Str("1"), EMPTY, Str("x")>>,                          \* k=1, a_b=x
      <<Str("1"), Str("5"), Str("y"), EMPTY, Str("f")>>,      \* k=1, u=5, a_b=y, n=f
      <<EMPTY, EMPTY, EMPTY, EMPTY, Str("f")>> }              \* only the column N

RECURSIVE SeqsUpTo(_, _)
SeqsUpTo(S, len) ==
    IF len = 0 THEN {<< >>}
    ELSE LET shorter == SeqsUpTo(S, len - 1)
         IN  shorter \cup {Append(q, x) : q \in {t \in shorter : Len(t) = len - 1}, x \in S}

\* a sheet in which no cell matches an expected header name
NoHeaderSheets == {<<TitleRow, <<Str("1"), EMPTY, Str("x")>>>>}

\* a sheet with two rows of the key (1, None) below a blank row
DuplicateKeySheets ==
    {<<TitleRow, HdrMain, << >>, <<Str("1"), EMPTY, Str("x")>>, <<Str("1"), EMPTY, Str("y")>>>>}

\* "K", "A b", "k ": two distinct header cells that sanitize to the name k
HdrDup == <<Str("K"), <<"A", " ", "b">>, <<"k", " ">>>>
DuplicateHeaderSheets ==
    {above \o <<HdrDup>> \o data :
        above \in AboveChoices, data \in {<< >>, <<<<Str("1"), Str("y"), Str("5")>>>>}}

Sheets ==
    {above \o <<hdr>> \o data :
        above \in AboveChoices, hdr \in HeaderRows, data \in SeqsUpTo(DataRows, MaxData)}
    \cup NoHeaderSheets \cup DuplicateKeySheets \cup DuplicateHeaderSheets

Records ==
    { <<<<k, Str("1")>>, <<a_b, Str("z")>>>>,     \* {k: 1, a_b: z}
      <<<<k, Str("5")>>, <<a_b, Str("y")>>>>,     \* {k: 5, a_b: y}
      <<<<a_b, Str("z")>>>>,                      \* {a_b: z}: no key field
      <<<<k, Str("1")>>>>,                        \* {k: 1}: key fields only
      <<<<k, Str("1")>>, <<sv, Str("9")>>, <<n, Str("g")>>>>,   \* {k: 1, s: 9, n: g}
      <<<<u, Str("5")>>, <<sv, Str("9")>>>> }     \* {u: 5, s: 9}

Batches == SeqsUpTo(Records, MaxBatch)

SortKeys == {None, n, sv}

\* the rows another writer may delete; -1 is the insertion of a blank top row
EditRows == {-1, 1}

(***************************************************************************)
(* State.                                                                  *)
(***************************************************************************)
VARIABLES
    sink,                   \* the spreadsheet
    sheet_data,             \* self.sheet_data
    header_to_col_num,      \* self.header_to_col_num (<< >> is None)
    header_row_num,         \* self.header_row_num (-1 is None)
    pc,                     \* where the client is
    values,                 \* _values of the running smart_update
    upsert,                 \* upsert of the running smart_update
    sort_key,               \* sort_key of the running smart_update, once read
    primary_keys_to_row_num,
    update_requests,
    rows_to_append,
    routes,                 \* the branch taken by each record classified so far
    raised,                 \* the exception that ended the run, or "none"
    calls,                  \* the requests executed against the sink in this run
    sink0,                  \* the spreadsheet when the run started
    edited,                 \* whether another writer changed the sheet, and when
    current_sheet_data_smart,   \* the smart_get() result of the run
    sort_asc,               \* sort_asc of the running smart_update, once read
    given,                  \* the records as the caller handed them over
    returned,               \* what the last smart_update that returned was given and left
    zipcodes_left,          \* scrape_search_results: zipcodes of params.zipcodes still to search
    current_page,
    num_pages,              \* << >> for None, <<n>> for the integer n
    continue_loop,
    search_results,         \* len(search_results)
    new_results,            \* len(new_results)
    results,                \* len(results) before the filter of each zipcode
    requests,               \* the pages requested by get_url for the current zipcode
    spc,                    \* where scrape_search_results is
    MAX_SEARCH_RESULTS      \* the flag --max_search_results

scraperVars == <<zipcodes_left, current_page, num_pages, continue_loop, search_results,
                 new_results, results, requests, spc, MAX_SEARCH_RESULTS>>
clientVars == <<sink, sheet_data, header_to_col_num, header_row_num, pc, values, upsert, sort_key,
                primary_keys_to_row_num, update_requests, rows_to_append, routes, raised, calls,
                sink0, edited, current_sheet_data_smart, sort_asc, given>>
vars == <<clientVars, returned, scraperVars>>

\* scrape_search_results not called
ScraperNew ==
    /\ zipcodes_left = 0
    /\ current_page = 0
    /\ num_pages = << >>
    /\ continue_loop = TRUE
    /\ search_results = 0
    /\ new_results = 0
    /\ results = 0
    /\ requests = << >>
    /\ spc = "off"
    /\ MAX_SEARCH_RESULTS = 0

\* lines 79-80: the client before the constructor's get()
Init ==
    /\ sink \in Sheets
    /\ sheet_data = << >>
    /\ header_to_col_num = << >>
    /\ header_row_num = -1
    /\ pc = "new"
    /\ values = << >>
    /\ upsert = TRUE
    /\ sort_key = None
    /\ primary_keys_to_row_num = << >>
    /\ update_requests = << >>
    /\ rows_to_append = << >>
    /\ routes = << >>
    /\ raised = "none"
    /\ calls = << >>
    /\ sink0 = sink
    /\ edited = "no"
    /\ current_sheet_data_smart = << >>
    /\ sort_asc = TRUE
    /\ given = << >>
    /\ returned = << >>
    /\ ScraperNew

GetCall == [kind |-> "get", arg |-> [range |-> "A1:Z999"]]

\* get(), lines 92-103: what the full-range fetch leaves in the client.
\* The fetched data is stored before the header search, which may raise.
Get(grid) ==
    LET data == SinkGet(grid)
        found == FindHeaders(data, possible_headers)
    IN  [raised |-> IF data = << >> THEN "AssertionError"
                    ELSE IF found.raised THEN "HeaderNotFound" ELSE "none",
         sheet_data |-> IF data = << >> THEN sheet_data ELSE data,
         header_to_col_num |-> IF data = << >> \/ found.raised THEN header_to_col_num
                               ELSE found.header_to_col_num,
         header_row_num |-> IF data = << >> \/ found.raised THEN header_row_num
                            ELSE found.header_row_num,
         calls |-> <<GetCall>>]

\* __init__, line 81
Construct ==
    /\ pc = "new"
    /\ LET got == Get(sink)
       IN  /\ sheet_data' = got.sheet_data
           /\ header_to_col_num' = got.header_to_col_num
           /\ header_row_num' = got.header_row_num
           /\ raised' = got.raised
           /\ pc' = IF got.raised = "none" THEN "idle" ELSE "ctor_failed"
    /\ calls' = <<GetCall>>
    /\ UNCHANGED <<sink, values, upsert, sort_key, primary_keys_to_row_num, update_requests,
                   rows_to_append, routes, sink0, edited, current_sheet_data_smart, sort_asc,
                   given, returned, scraperVars>>

\* smart_get called with update_sheet_data = False: the cached data is used
RefreshSheetDataCached(grid) ==
    [raised |-> "none", sheet_data |-> sheet_data, header_to_col_num |-> header_to_col_num,
     header_row_num |-> header_row_num, calls |-> << >>]

\* smart_get, lines 114-115: update_sheet_data defaults to True, so get() runs
RefreshSheetData(grid) == Get(grid)

NoClassification(_values) ==
    [raised |-> "none", update_requests |-> << >>, rows_to_append |-> << >>, routes |-> << >>,
     values |-> _values]

\* SinkAfterRaise with the writes of the run undone
SinkRolledBack(grid) == sink0

\* a raise has no handler and no compensating write: the sink stays as it is
SinkAfterRaise(grid) == grid

\* smart_update, lines 189-197: the fetch of the run and the key index built
\* from it
SmartUpdateFetch ==
    /\ pc = "idle"
    /\ LET got == RefreshSheetData(sink)
       IN  /\ sheet_data' = got.sheet_data
           /\ header_to_col_num' = got.header_to_col_num
           /\ header_row_num' = got.header_row_num
           /\ calls' = got.calls
           /\ raised' = got.raised
           /\ pc' = IF got.raised = "none" THEN "fetched" ELSE "failed"
           /\ current_sheet_data_smart' =
                IF got.raised # "none" THEN << >>
                ELSE SmartGet(got.sheet_data, got.header_to_col_num, got.header_row_num)
           /\ primary_keys_to_row_num' =
                IF got.raised # "none" THEN << >>
                ELSE BuildIndex(current_sheet_data_smart', primary_keys, got.header_row_num,
                                0, << >>)
    /\ values' = << >>
    /\ given' = << >>
    /\ upsert' = TRUE
    /\ sort_key' = None
    /\ sort_asc' = TRUE
    /\ update_requests' = << >>
    /\ rows_to_append' = << >>
    /\ routes' = << >>
    /\ sink0' = sink
    /\ UNCHANGED <<sink, edited, returned, scraperVars>>

\* smart_update, lines 201-233: every record of the batch classified against
\* the key index.  The _values and upsert arguments are first read here.
SmartUpdateClassify(_values, _upsert) ==
    /\ pc = "fetched"
    /\ LET st == Classify(_values, primary_keys, primary_keys_to_row_num, header_to_col_num,
                          _upsert, 1, NoClassification(_values))
       IN  /\ raised' = st.raised
           /\ pc' = IF st.raised = "none" THEN "update" ELSE "failed"
           /\ update_requests' = st.update_requests
           /\ rows_to_append' = st.rows_to_append
           /\ routes' = st.routes
           /\ values' = st.values
    /\ given' = _values
    /\ upsert' = _upsert
    /\ UNCHANGED <<sink, sheet_data, header_to_col_num, header_row_num, sort_key,
                   primary_keys_to_row_num, calls, sink0, edited, current_sheet_data_smart,
                   sort_asc, returned, scraperVars>>

\* smart_update, lines 235-240: the one batched write of the single-cell updates
BatchUpdate ==
    /\ pc = "update"
    /\ sink' = SinkBatchUpdate(sink, update_requests)
    /\ calls' = Append(calls, [kind |-> "batchUpdate", arg |-> [data |-> update_requests]])
    /\ pc' = IF upsert THEN "append" ELSE "sort"
    /\ UNCHANGED <<sheet_data, header_to_col_num, header_row_num, values, upsert, sort_key,
                   primary_keys_to_row_num, update_requests, rows_to_append, routes, raised,
                   sink0, edited, current_sheet_data_smart, sort_asc, given, returned,
                   scraperVars>>

\* smart_update line 244 and smart_append, lines 311-334
SmartAppend ==
    /\ pc = "append"
    /\ LET st == BuildAppendData(rows_to_append, header_to_col_num, 1,
                                 [raised |-> "none", append_data |-> << >>])
           table_tl == TableTl(header_to_col_num, header_row_num)
       IN  IF st.raised # "none"
           THEN /\ raised' = st.raised
                /\ pc' = "failed"
                /\ sink' = SinkAfterRaise(sink)
                /\ UNCHANGED calls
           ELSE /\ sink' = SinkAppend(sink, table_tl, st.append_data)
                /\ calls' = Append(calls, [kind |-> "append",
                                           arg |-> [range |-> table_tl, values |-> st.append_data]])
                /\ pc' = "sort"
                /\ UNCHANGED raised
    /\ UNCHANGED <<sheet_data, header_to_col_num, header_row_num, values, upsert, sort_key,
                   primary_keys_to_row_num, update_requests, rows_to_append, routes,
                   sink0, edited, current_sheet_data_smart, sort_asc, given, returned,
                   scraperVars>>

\* smart_update lines 247-248 and smart_sort, lines 374-383.  The sort_key
\* argument of smart_update is first read here, and sort_asc when sort() is
\* reached.
SmartSort(_sort_key, _sort_asc) ==
    /\ pc = "sort"
    /\ sort_key' = _sort_key
    /\ IF ~Truthy(_sort_key)
       THEN /\ pc' = "done"
            /\ UNCHANGED <<sink, calls, raised, sort_asc>>
       ELSE IF ~DictHas(header_to_col_num, _sort_key)
       THEN /\ raised' = "UnknownSortColumn"
            /\ pc' = "failed"
            /\ sink' = SinkAfterRaise(sink)
            /\ UNCHANGED <<calls, sort_asc>>
       ELSE LET sort_col_num == DictGet(header_to_col_num, _sort_key)
                sort_range == SortRange(header_row_num)
                request == SortRequest(sort_col_num, sort_range, _sort_asc)
            IN  /\ sink' = SinkSort(sink, request.arg)
                /\ calls' = Append(calls, request)
                /\ sort_asc' = _sort_asc
                /\ pc' = "done"
                /\ UNCHANGED raised
    /\ UNCHANGED <<sheet_data, header_to_col_num, header_row_num, values, upsert,
                   primary_keys_to_row_num, update_requests, rows_to_append, routes,
                   sink0, edited, current_sheet_data_smart, given, returned, scraperVars>>

\* what another writer does to the sheet: a blank row inserted at the top
\* (row = -1) or the row of index row deleted
EditedSheet(grid, row) ==
    IF row = -1 THEN <<<< >>>> \o grid
    ELSE SubSeq(grid, 1, row) \o SubSeq(grid, row + 2, Len(grid))

\* Another writer of the sheet (a person editing it), once: an insertion or a
\* deletion before a run, or an insertion between the run's fetch and its
\* batched write.
OtherWriter(row) ==
    /\ edited = "no"
    /\ pc = "idle" \/ (pc = "update" /\ row = -1)
    /\ row < Len(sink)
    /\ sink' = EditedSheet(sink, row)
    /\ edited' = IF pc = "idle" THEN "idle" ELSE "run"
    /\ UNCHANGED <<sheet_data, header_to_col_num, header_row_num, pc, values, upsert, sort_key,
                   primary_keys_to_row_num, update_requests, rows_to_append, routes, raised,
                   calls, sink0, current_sheet_data_smart, sort_asc, given, returned,
                   scraperVars>>

Next ==
    \/ Construct
    \/ SmartUpdateFetch
    \/ \E _values \in Batches, _upsert \in BOOLEAN : SmartUpdateClassify(_values, _upsert)
    \/ BatchUpdate
    \/ SmartAppend
    \/ \E _sort_key \in SortKeys, _sort_asc \in BOOLEAN : SmartSort(_sort_key, _sort_asc)
    \/ \E row \in EditRows : OtherWriter(row)

Spec == Init /\ [][Next]_vars

(***************************************************************************)
(* smart_update called a second time with the arguments of a run that      *)
(* returned, on a sheet only this client writes to.                        *)
(***************************************************************************)
\* smart_update returns (line 248 is its last statement) and the caller calls it
\* again with the same arguments
Rerun ==
    /\ pc = "done"
    /\ returned = << >>
    /\ returned' = <<[values |-> given, upsert |-> upsert, sort_key |-> sort_key,
                      sort_asc |-> sort_asc, sink |-> sink]>>
    /\ pc' = "idle"
    /\ UNCHANGED <<sink, sheet_data, header_to_col_num, header_row_num, values, upsert, sort_key,
                   primary_keys_to_row_num, update_requests, rows_to_append, routes, raised,
                   calls, sink0, edited, current_sheet_data_smart, sort_asc, given, scraperVars>>

FirstClassify == returned = << >> /\ \E _values \in Batches : SmartUpdateClassify(_values, TRUE)
SecondClassify ==
    returned # << >> /\ SmartUpdateClassify(returned[1].values, returned[1].upsert)
FirstSort ==
    returned = << >> /\ \E _sort_key \in SortKeys, _sort_asc \in BOOLEAN :
                            SmartSort(_sort_key, _sort_asc)
SecondSort == returned # << >> /\ SmartSort(returned[1].sort_key, returned[1].sort_asc)

NextTwice ==
    \/ Construct
    \/ SmartUpdateFetch
    \/ FirstClassify
    \/ SecondClassify
    \/ BatchUpdate
    \/ SmartAppend
    \/ FirstSort
    \/ SecondSort
    \/ Rerun

SpecTwice == Init /\ [][NextTwice]_vars

(***************************************************************************)
(* update_google_sheet (src/frontend/update_google_sheet.py): the client   *)
(* is constructed, smart_update is run with the records of the database,   *)
(* sorted descending on sort_value, and the sheet metadata is written      *)
(* above the header row.                                                   *)
(***************************************************************************)
\* lines 229-236: a row with the explanation, which ends with the number of
\* listings, and a row with the time of the run
SheetMetadata(upserted_data) ==
    << <<Str("e") \o (IF Len(upserted_data) = 0 THEN Str("0") ELSE Str("9"))>>, <<Str("t")>> >>

\* MetadataTopRowNum that is one row too low
MetadataTopRowNumOnHeader(header_row_number, metadata) == header_row_number - Len(metadata) + 1

\* line 271
MetadataTopRowNum(header_row_number, metadata) == header_row_number - Len(metadata)

\* "K", "U", "A b", "S": every field of a record has its column
HdrFull == <<Str("K"), Str("U"), <<"A", " ", "b">>, Str("S")>>
AboveScript ==
    { << >>, <<TitleRow>>, <<TitleRow, <<Str("t")>>>>, <<TitleRow, << >>, <<Str("t")>>>> }
ScriptSheets ==
    {above \o <<hdr>> \o data :
        above \in AboveScript, hdr \in {HdrMain, HdrFull}, data \in SeqsUpTo(DataRows, MaxData)}
\* line 262: to_dict() gives every field of UnitListing
ScriptRecords ==
    { <<<<k, Str("1")>>, <<u, Str("5")>>, <<a_b, Str("z")>>, <<sv, Str("9")>>>>,
      <<<<k, Str("5")>>, <<u, Str("5")>>, <<a_b, Str("y")>>, <<sv, Str("2")>>>> }
ScriptBatches == SeqsUpTo(ScriptRecords, MaxBatch)

InitScript ==
    /\ sink \in ScriptSheets
    /\ sheet_data = << >>
    /\ header_to_col_num = << >>
    /\ header_row_num = -1
    /\ pc = "new"
    /\ values = << >>
    /\ upsert = TRUE
    /\ sort_key = None
    /\ primary_keys_to_row_num = << >>
    /\ update_requests = << >>
    /\ rows_to_append = << >>
    /\ routes = << >>
    /\ raised = "none"
    /\ calls = << >>
    /\ sink0 = sink
    /\ edited = "no"
    /\ current_sheet_data_smart = << >>
    /\ sort_asc = TRUE
    /\ given = << >>
    /\ returned = << >>
    /\ ScraperNew

\* line 266: upsert is left at its default, True
ScriptClassify == \E _values \in ScriptBatches : SmartUpdateClassify(_values, TRUE)
\* line 266: sort_key=SORT_HEADER, sort_asc=False
ScriptSort == SmartSort(sv, FALSE)

\* lines 270-274, after smart_update has returned
WriteMetadata ==
    /\ pc = "done"
    /\ returned' = <<[values |-> given, upsert |-> upsert, sort_key |-> sort_key,
                      sort_asc |-> sort_asc, sink |-> sink]>>
    /\ LET metadata == SheetMetadata(given)
           metadata_top_row_num == MetadataTopRowNum(header_row_num, metadata)
           metadata_tl == RowColNumToA1(metadata_top_row_num, 0)
       IN  IF ~(metadata_top_row_num >= 0)
           THEN /\ raised' = "AssertionError"
                /\ pc' = "meta_failed"
                /\ UNCHANGED <<sink, calls>>
           ELSE /\ sink' = SinkUpdate(sink, metadata_tl, metadata)
                /\ calls' = Append(calls, [kind |-> "update",
                                           arg |-> [range |-> metadata_tl, values |-> metadata]])
                /\ pc' = "meta_done"
                /\ UNCHANGED raised
    /\ UNCHANGED <<sheet_data, header_to_col_num, header_row_num, values, upsert, sort_key,
                   primary_keys_to_row_num, update_requests, rows_to_append, routes,
                   sink0, edited, current_sheet_data_smart, sort_asc, given, scraperVars>>

NextScript ==
    \/ Construct
    \/ SmartUpdateFetch
    \/ ScriptClassify
    \/ BatchUpdate
    \/ SmartAppend
    \/ ScriptSort
    \/ WriteMetadata
    \/ \E row \in EditRows : OtherWriter(row)

SpecScript == InitScript /\ [][NextScript]_vars

(***************************************************************************)
(* ApartmentsDotCom.scrape_search_results (src/scrapers/apartments_dot_com *)
(* .py): the pagination loop of each zipcode.  A page is what get_url      *)
(* returned: the number of result elements that parsed, and the text of    *)
(* the page count element (None when the page has none).  An optional      *)
(* integer is << >> for None and <<n>> for n.                              *)
(***************************************************************************)
MaxZipcodes == 2
MaxPages == 3
MaxNewResults == 2

DEFAULT_NUM_PAGES == 1

Digits == <<"0", "1", "2", "3", "4", "5", "6", "7", "8", "9">>
IsDigit(c) == \E d \in 1..Len(Digits) : Digits[d] = c
DigitVal(c) == (CHOOSE d \in 1..Len(Digits) : Digits[d] = c) - 1

\* the places where "of" starts in s
OfPlaces(s) == {i \in 1..(Len(s) - 1) : s[i] = "o" /\ s[i + 1] = "f"}
\* 'of' in page_count_str
HasOf(s) == OfPlaces(s) # {}
\* page_count_str.split('of')[1]: the text between the first "of" and the next
SplitOf1(s) ==
    LET first == CHOOSE i \in OfPlaces(s) : \A j \in OfPlaces(s) : i <= j
        later == {j \in OfPlaces(s) : j >= first + 2}
        stop == IF later = {} THEN Len(s) + 1
                ELSE CHOOSE j \in later : \A j2 \in later : j <= j2
    IN  SubSeq(s, first + 2, stop - 1)

RECURSIVE DecimalVal(_, _)
DecimalVal(s, acc) ==
    IF s = << >> THEN acc ELSE DecimalVal(Tail(s), 10 * acc + DigitVal(Head(s)))

\* int(str): surrounding whitespace and a sign are accepted; anything else
\* than digits raises ValueError
IntOf(s) ==
    LET stripped == Strip(s)
        signed == stripped # << >> /\ Head(stripped) \in {"-", "+"}
        digits == IF signed THEN Tail(stripped) ELSE stripped
    IN  IF digits = << >> \/ \E i \in 1..Len(digits) : ~IsDigit(digits[i])
        THEN [raised |-> TRUE, value |-> << >>]
        ELSE [raised |-> FALSE,
              value |-> <<IF signed /\ Head(stripped) = "-" THEN 0 - DecimalVal(digits, 0)
                          ELSE DecimalVal(digits, 0)>>]

\* _parse_num_result_pages, lines 357-366
ParseNumResultPages(page_count_element) ==
    IF page_count_element = None THEN [raised |-> FALSE, value |-> << >>]
    ELSE IF ~HasOf(page_count_element) THEN [raised |-> FALSE, value |-> << >>]
    ELSE IntOf(SplitOf1(page_count_element))

\* line 404: "x or DEFAULT_NUM_PAGES" takes the default for None and for 0
OrDefault(parsed) == IF parsed = << >> \/ parsed = <<0>> THEN <<DEFAULT_NUM_PAGES>> ELSE parsed

\* ContinueLoop without the page limit
ContinueLoopNoPageLimit(_new_results, _search_results, _current_page, _num_pages, _max) ==
    ~(_new_results = 0 \/ _search_results > _max)

\* lines 415-424
ContinueLoop(_new_results, _search_results, _current_page, _num_pages, _max) ==
    IF _new_results = 0 THEN FALSE
    ELSE IF _search_results > _max THEN FALSE
    ELSE IF _num_pages # << >> /\ _current_page >= _num_pages[1] THEN FALSE
    ELSE TRUE

\* the texts of the page count element: "1", "1 of n", "1 of -1", "1 of x", or
\* no element
OneOf == <<"1", " ", "o", "f", " ">>
PageCountTexts ==
    {None, Str("1"), OneOf \o <<"-", "1">>, OneOf \o Str("x")}
    \cup {OneOf \o <<Digits[nn + 1]>> : nn \in 0..MaxPages}
MaxSearchResultsFlags == {1, 4}

\* the call of scrape_search_results, before the loop over the zipcodes
InitScrape ==
    /\ sink = << >>
    /\ sheet_data = << >>
    /\ header_to_col_num = << >>
    /\ header_row_num = -1
    /\ pc = "new"
    /\ values = << >>
    /\ upsert = TRUE
    /\ sort_key = None
    /\ primary_keys_to_row_num = << >>
    /\ update_requests = << >>
    /\ rows_to_append = << >>
    /\ routes = << >>
    /\ raised = "none"
    /\ calls = << >>
    /\ sink0 = << >>
    /\ edited = "no"
    /\ current_sheet_data_smart = << >>
    /\ sort_asc = TRUE
    /\ given = << >>
    /\ returned = << >>
    /\ zipcodes_left \in 0..MaxZipcodes
    /\ MAX_SEARCH_RESULTS \in MaxSearchResultsFlags
    /\ current_page = 0
    /\ num_pages = << >>
    /\ continue_loop = TRUE
    /\ search_results = 0
    /\ new_results = 0
    /\ results = 0
    /\ requests = << >>
    /\ spc = "for"

\* lines 375-380: the next zipcode
StartZipcode ==
    /\ spc = "for"
    /\ zipcodes_left > 0
    /\ zipcodes_left' = zipcodes_left - 1
    /\ current_page' = 0
    /\ num_pages' = << >>
    /\ continue_loop' = TRUE
    /\ search_results' = 0
    /\ new_results' = 0
    /\ requests' = << >>
    /\ spc' = "while"
    /\ UNCHANGED <<results, MAX_SEARCH_RESULTS, clientVars, returned>>

\* lines 382-413: one page requested and parsed
FetchPage(parsed_results, page_count_element) ==
    /\ spc = "while"
    /\ continue_loop
    /\ current_page' = current_page + 1
    /\ requests' = Append(requests, current_page')
    /\ new_results' = parsed_results
    /\ LET parsed == ParseNumResultPages(page_count_element)
       IN  IF num_pages = << >> /\ parsed.raised
           THEN /\ spc' = "raised"
                /\ UNCHANGED <<num_pages, search_results>>
           ELSE /\ num_pages' = IF num_pages = << >> THEN OrDefault(parsed.value) ELSE num_pages
                /\ search_results' = search_results + parsed_results
                /\ spc' = "decide"
    /\ UNCHANGED <<zipcodes_left, continue_loop, results, MAX_SEARCH_RESULTS, clientVars,
                   returned>>

\* lines 415-424
DecideContinue ==
    /\ spc = "decide"
    /\ continue_loop' = ContinueLoop(new_results, search_results, current_page, num_pages,
                                     MAX_SEARCH_RESULTS)
    /\ spc' = "while"
    /\ UNCHANGED <<zipcodes_left, current_page, num_pages, search_results, new_results,
                   results, requests, MAX_SEARCH_RESULTS, clientVars, returned>>

\* lines 425-432: the loop is left, the results of the zipcode that pass the
\* filter are kept
FilterResults(kept) ==
    /\ spc = "while"
    /\ ~continue_loop
    /\ kept <= search_results
    /\ results' = results + kept
    /\ spc' = "for"
    /\ UNCHANGED <<zipcodes_left, current_page, num_pages, continue_loop, search_results,
                   new_results, requests, MAX_SEARCH_RESULTS, clientVars, returned>>

\* line 434
ReturnResults ==
    /\ spc = "for"
    /\ zipcodes_left = 0
    /\ spc' = "returned"
    /\ UNCHANGED <<zipcodes_left, current_page, num_pages, continue_loop, search_results,
                   new_results, results, requests, MAX_SEARCH_RESULTS, clientVars, returned>>

NextScrape ==
    \/ StartZipcode
    \/ \E parsed_results \in 0..MaxNewResults, page_count_element \in PageCountTexts :
          FetchPage(parsed_results, page_count_element)
    \/ DecideContinue
    \/ \E kept \in 0..(MaxPages * MaxNewResults) : FilterResults(kept)
    \/ ReturnResults

\* the method runs in one thread and every get_url returns: a step that can be
\* taken is taken
SpecScrape == InitScrape /\ [][NextScrape]_vars /\ WF_vars(NextScrape)

(***************************************************************************)
(* Vocabulary of the properties.                                           *)
(***************************************************************************)
Kinds(log) == [i \in 1..Len(log) |-> log[i].kind]
HeaderCol(name) == DictGet(header_to_col_num, name)
KeyOf(row) == RowToPrimaryKeyValues(row, primary_keys)
HasKey(row) == \E p \in 1..Len(primary_keys) : primary_keys[p] \in DictKeys(row)
IsPrimaryKey(name) == \E p \in 1..Len(primary_keys) : primary_keys[p] = name
Width(grid) == IF grid = << >> THEN 0
               ELSE CHOOSE w \in {Len(grid[i]) : i \in 1..Len(grid)} :
                        \A i \in 1..Len(grid) : Len(grid[i]) <= w
\* rows of a grid in which some cell matches an expected header name
MatchingRows(grid) ==
    {r \in 0..(Len(grid) - 1) :
        \E c \in 0..(Len(grid[r + 1]) - 1) : \E p \in 1..Len(possible_headers) :
            SanitizeHeader(grid[r + 1][c + 1]) = possible_headers[p]}
\* the sheet after the batched cell updates of the run, when nobody else writes
SinkAfterUpdates == SinkBatchUpdate(sink0, update_requests)
\* the row a record of the batch is routed to: the indexed row on the update
\* path, the row its built row is pasted at on the append path
AppendedBefore(i) == Cardinality({j \in 1..(i - 1) : routes[j] = "append"})
RoutedRow(i) ==
    IF routes[i] = "update" THEN DictGet(primary_keys_to_row_num, KeyOf(values[i]))
    ELSE AppendStart(SinkAfterUpdates, TableTl(header_to_col_num, header_row_num)).row
         + AppendedBefore(i)
\* the requests of one kind executed in this run
CallsOfKind(kind) == {i \in 1..Len(calls) : calls[i].kind = kind}

(***************************************************************************)
(* C1.  After a smart_update run with upsert = true that completes without *)
(* error on a sheet nobody else writes, every record of the batch is       *)
(* represented: some row below the header row holds the record's value in  *)
(* the column of each of its header-mapped fields, and nothing in the      *)
(* columns of the key fields it does not set.  Stated for the sheets whose  *)
(* header row starts in column A.                                          *)
(***************************************************************************)
Represented(rec, grid) ==
    \E r \in (header_row_num + 1)..(Len(grid) - 1) :
        /\ \A f \in 1..Len(rec) :
              DictHas(header_to_col_num, rec[f][1])
                  => CellAt(grid, r, HeaderCol(rec[f][1])) = rec[f][2]
        /\ \A p \in 1..Len(primary_keys) :
              (~DictHas(rec, primary_keys[p]) /\ DictHas(header_to_col_num, primary_keys[p]))
                  => CellAt(grid, r, HeaderCol(primary_keys[p])) = EMPTY

C1_EveryRecordRepresented ==
    (pc = "done" /\ upsert /\ edited # "run" /\ MinColNum(header_to_col_num) = 0)
        => \A i \in 1..Len(values) : Represented(values[i], sink)

(***************************************************************************)
(* C2.  The writes of a smart_update run (batched cell updates, then       *)
(* appended rows) change no cell outside the columns set by the record     *)
(* routed to the cell's row.  Stated for the sheets whose header row       *)
(* starts in column A.                                                     *)
(***************************************************************************)
Mentioned(r, c) ==
    \E i \in 1..Len(values) :
        /\ routes[i] \in {"update", "append"}
        /\ RoutedRow(i) = r
        /\ \E f \in 1..Len(values[i]) :
              /\ DictHas(header_to_col_num, values[i][f][1])
              /\ HeaderCol(values[i][f][1]) = c

C2_UnmentionedCellsKept ==
    (pc \in {"append", "sort"} /\ edited # "run" /\ MinColNum(header_to_col_num) = 0)
        => \A r \in 0..Max2(Len(sink), Len(sink0)) :
             \A c \in 0..Max2(Width(sink), Width(sink0)) :
               CellAt(sink, r, c) # CellAt(sink0, r, c) => Mentioned(r, c)

(***************************************************************************)
(* C3.  When some row of the fetched grid has a cell that sanitizes to an  *)
(* expected header name, the header search does not fail and returns the   *)
(* topmost such row, row 0 included.                                       *)
(***************************************************************************)
C3_TopmostMatchingRowFound ==
    (pc \in {"idle", "ctor_failed", "fetched"} /\ MatchingRows(sheet_data) # {})
        => /\ raised # "HeaderNotFound"
           /\ header_row_num \in MatchingRows(sheet_data)
           /\ \A r \in MatchingRows(sheet_data) : header_row_num <= r

(***************************************************************************)
(* C4.  The key index maps the key tuple of every fetched row below the    *)
(* header row that sets a primary-key field to that row's absolute index   *)
(* in the fetched grid, whenever the existing keys are pairwise distinct.  *)
(***************************************************************************)
\* the key tuple read off grid row r, straight from the cells
CellKey(grid, r) ==
    [p \in 1..Len(primary_keys) |->
        IF DictHas(header_to_col_num, primary_keys[p])
           /\ CellAt(grid, r, HeaderCol(primary_keys[p])) # EMPTY
        THEN CellAt(grid, r, HeaderCol(primary_keys[p]))
        ELSE None]
KeyedRows(grid) ==
    {r \in (header_row_num + 1)..(Len(grid) - 1) :
        \E p \in 1..Len(primary_keys) : CellKey(grid, r)[p] # None}
KeysDistinct(grid) ==
    \A r1, r2 \in KeyedRows(grid) : r1 # r2 => CellKey(grid, r1) # CellKey(grid, r2)

C4_IndexHoldsAbsoluteRow ==
    (pc = "fetched" /\ KeysDistinct(sheet_data))
        => \A r \in KeyedRows(sheet_data) :
             /\ DictHas(primary_keys_to_row_num, CellKey(sheet_data, r))
             /\ DictGet(primary_keys_to_row_num, CellKey(sheet_data, r)) = r

(***************************************************************************)
(* C5.  Update locality: a record on the update path yields exactly one    *)
(* single-cell write per field that is no primary-key field and is in the  *)
(* header map, at (indexed row, column of the field) with the record's     *)
(* value, and no other write.                                              *)
(***************************************************************************)
UpdatableFields(rec) ==
    {f \in 1..Len(rec) : ~IsPrimaryKey(rec[f][1]) /\ DictHas(header_to_col_num, rec[f][1])}
RequestsOf(i) == {j \in 1..Len(update_requests) : update_requests[j].record = i}
WritesField(j, i, f) ==
    /\ A1Row(update_requests[j].range) = DictGet(primary_keys_to_row_num, KeyOf(values[i]))
    /\ A1Col(update_requests[j].range) = HeaderCol(values[i][f][1])
    /\ update_requests[j].values = values[i][f][2]

C5_UpdateLocality ==
    /\ \A j \in 1..Len(update_requests) :
          /\ update_requests[j].record \in 1..Len(routes)
          /\ routes[update_requests[j].record] = "update"
    /\ \A i \in 1..Len(routes) :
          routes[i] = "update"
              => /\ Cardinality(RequestsOf(i)) = Cardinality(UpdatableFields(values[i]))
                 /\ \A f \in UpdatableFields(values[i]) :
                       \E j \in RequestsOf(i) : WritesField(j, i, f)
                 /\ \A j \in RequestsOf(i) :
                       \E f \in UpdatableFields(values[i]) : WritesField(j, i, f)

\* a record with a key field, a field missing from the header map and a field in
\* it took the update path
C5_Witness ==
    /\ pc = "update"
    /\ \E i \in 1..Len(routes) :
          /\ routes[i] = "update"
          /\ Cardinality(RequestsOf(i)) = 1
          /\ \E f \in 1..Len(values[i]) :
                ~IsPrimaryKey(values[i][f][1]) /\ ~DictHas(header_to_col_num, values[i][f][1])

(***************************************************************************)
(* C6.  Upsert routing: a record that supplies a primary-key field takes   *)
(* the update path iff its key tuple is in the key index; otherwise it is  *)
(* queued for append when upsert is true and the run fails with            *)
(* UnknownRecord when upsert is false.                                     *)
(***************************************************************************)
Indexed(rec) == KeyOf(rec) \in DictKeys(primary_keys_to_row_num)
NotIndexed(rec) == ~Indexed(rec)

C6_UpsertRouting ==
    /\ \A i \in 1..Len(routes) :
          HasKey(values[i])
              => IF Indexed(values[i])
                 THEN /\ routes[i] \in {"update", "NoUpdatableColumns"}
                      /\ \A q \in 1..Len(rows_to_append) : rows_to_append[q] # values[i]
                 ELSE IF upsert
                 THEN /\ routes[i] = "append"
                      /\ RequestsOf(i) = {}
                      /\ \E q \in 1..Len(rows_to_append) : rows_to_append[q] = values[i]
                 ELSE /\ routes[i] = "UnknownRecord"
                      /\ i = Len(routes)
                      /\ pc = "failed"
                      /\ raised = "UnknownRecord"
    /\ (pc \in {"update", "append", "sort", "done"} /\ upsert)
          => rows_to_append = SelectSeq(values, NotIndexed)
    /\ (pc \in {"update", "append", "sort", "done"} /\ ~upsert)
          => rows_to_append = << >>

\* with upsert false, a record was routed to an update and the next one was unknown
C6_Witness ==
    /\ pc = "failed"
    /\ raised = "UnknownRecord"
    /\ Len(routes) = 2
    /\ routes[1] = "update"

(***************************************************************************)
(* C7.  As claimed: a record with none of the primary-key fields set makes *)
(* smart_update fail with MissingPrimaryKey, for both values of upsert,    *)
(* wherever the record sits in the batch.                                  *)
(***************************************************************************)
Keyless == {i \in 1..Len(values) : ~HasKey(values[i])}

C7_KeylessAlwaysMissingPrimaryKey ==
    Keyless # {} => (pc = "failed" /\ raised = "MissingPrimaryKey")

(***************************************************************************)
(* C7, amended.  A batch with a record that sets no primary-key field      *)
(* makes smart_update fail before any write, for both values of upsert:    *)
(* with MissingPrimaryKey at the first such record when no earlier record  *)
(* raises, and else with the error of the earlier record (UnknownRecord or *)
(* NoUpdatableColumns).                                                    *)
(***************************************************************************)
\* record i raises nothing in the classification
Classifiable(i) ==
    /\ HasKey(values[i])
    /\ IF Indexed(values[i]) THEN UpdatableFields(values[i]) # {} ELSE upsert
FirstKeyless == CHOOSE i \in Keyless : \A j \in Keyless : i <= j

C7_KeylessBatchFails ==
    Keyless # {}
        => /\ pc = "failed"
           /\ Kinds(calls) = <<"get">>
           /\ sink = sink0
           /\ raised \in {"MissingPrimaryKey", "UnknownRecord", "NoUpdatableColumns"}
           /\ (\A i \in 1..(FirstKeyless - 1) : Classifiable(i))
                 => (raised = "MissingPrimaryKey" /\ Len(routes) = FirstKeyless)
           /\ (\E i \in 1..(FirstKeyless - 1) : ~Classifiable(i))
                 => (raised # "MissingPrimaryKey" /\ Len(routes) < FirstKeyless)

\* the record without a key field came second, and upsert was false
C7_Witness ==
    /\ pc = "failed"
    /\ raised = "MissingPrimaryKey"
    /\ ~upsert
    /\ Len(routes) = 2
    /\ Keyless = {2}

(***************************************************************************)
(* C8.  One smart_update run fetches the grid exactly once, at its start   *)
(* and from the sheet as it then is (not from the constructor's or an      *)
(* earlier fetch), builds its key index from that snapshot, and then       *)
(* issues batched cell update, append and sort in this order, at most one  *)
(* of each, the sort only when a sort column is given.                     *)
(***************************************************************************)
InRun == pc \in {"fetched", "update", "append", "sort", "done", "failed"}
WritesAfterFetch == Kinds(Tail(calls))
UpdateDone == <<"batchUpdate">>
AppendDone == IF upsert THEN <<"batchUpdate", "append">> ELSE <<"batchUpdate">>
SortDone == IF Truthy(sort_key) THEN AppendDone \o <<"sort">> ELSE AppendDone

C8_OneFetchThenOrderedWrites ==
    InRun
        => /\ calls # << >>
           /\ calls[1].kind = "get"
           /\ Cardinality(CallsOfKind("get")) = 1
           /\ sheet_data = SinkGet(sink0)
           /\ raised # "HeaderNotFound"
                 => /\ FindHeaders(SinkGet(sink0), possible_headers).header_row_num
                          = header_row_num
                    /\ primary_keys_to_row_num =
                          BuildIndex(SmartGet(SinkGet(sink0), header_to_col_num, header_row_num),
                                     primary_keys, header_row_num, 0, << >>)
           /\ pc \in {"fetched", "update"} => WritesAfterFetch = << >>
           /\ pc = "append" => WritesAfterFetch = UpdateDone
           /\ pc = "sort" => WritesAfterFetch = AppendDone
           /\ pc = "done" => WritesAfterFetch = SortDone
           /\ pc = "failed" => WritesAfterFetch \in {<< >>, UpdateDone, AppendDone}

\* a complete run with all three writes, on a sheet that was edited after the
\* constructor fetched it
C8_Witness ==
    /\ pc = "done"
    /\ Kinds(calls) = <<"get", "batchUpdate", "append", "sort">>
    /\ edited = "idle"
    /\ update_requests # << >>
    /\ rows_to_append # << >>

(***************************************************************************)
(* C9.  Append row content: each row handed to the append call has width   *)
(* max_col + 1 and holds, at the column of every header of the header map, *)
(* the record's value for that header when it is non-empty, and the empty  *)
(* string everywhere else.                                                 *)
(***************************************************************************)
ExpectedRow(rec) ==
    [c1 \in 1..(MaxColNum(header_to_col_num) + 1) |->
        IF \E h \in 1..Len(header_to_col_num) :
              /\ header_to_col_num[h][2] = c1 - 1
              /\ Truthy(DictGetOrNone(rec, header_to_col_num[h][1]))
        THEN DictGet(rec, header_to_col_num[
                 CHOOSE h \in 1..Len(header_to_col_num) :
                     header_to_col_num[h][2] = c1 - 1][1])
        ELSE EMPTY]

C9_AppendRowContent ==
    \A i \in CallsOfKind("append") :
        /\ Len(calls[i].arg.values) = Len(rows_to_append)
        /\ \A q \in 1..Len(rows_to_append) :
              calls[i].arg.values[q] = ExpectedRow(rows_to_append[q])

(***************************************************************************)
(* C10.  smart_append submits the built rows in one append call, in the    *)
(* order the records were queued (the order of the batch), anchored at the *)
(* header row in column min_col, so that the rows are pasted below the     *)
(* rows of the table under the header row.                                 *)
(***************************************************************************)
\* the table of the sheet: the block of columns of the header row around the
\* key column, and the rows under the header row down to the first blank one
HeaderTableBottom(grid) ==
    LET someCol == CHOOSE c \in 0..Width(grid) :
                       /\ CellAt(grid, header_row_num, c) # EMPTY
                       /\ \A d \in 0..(c - 1) : CellAt(grid, header_row_num, d) = EMPTY
    IN  TableBottom(grid, header_row_num, TableLeft(grid, header_row_num, someCol),
                    TableRight(grid, header_row_num, someCol))

\* min_col: the smallest column index present in the header map
SmallestCol ==
    CHOOSE c \in {header_to_col_num[h][2] : h \in 1..Len(header_to_col_num)} :
        \A h \in 1..Len(header_to_col_num) : c <= header_to_col_num[h][2]

C10_OneOrderedAnchoredAppend ==
    /\ Cardinality(CallsOfKind("append")) <= 1
    /\ \A i \in CallsOfKind("append") :
          /\ rows_to_append = SelectSeq(values, NotIndexed)
          /\ Len(calls[i].arg.values) = Len(rows_to_append)
          /\ \A q \in 1..Len(rows_to_append) :
                calls[i].arg.values[q] = BuildRow(rows_to_append[q], header_to_col_num).row_data
          /\ A1Row(calls[i].arg.range) = header_row_num
          /\ A1Col(calls[i].arg.range) = SmallestCol
          /\ (edited # "run" /\ rows_to_append # << >>)
                => AppendStart(SinkAfterUpdates, calls[i].arg.range).row
                       > HeaderTableBottom(SinkAfterUpdates)

(***************************************************************************)
(* C11.  A record on the append path (a record of the queue) none of whose *)
(* non-empty fields is in the header map makes smart_append fail with      *)
(* NoMatchingColumns, and then no append call is issued for any record of  *)
(* the queue: the sheet stays as the batched cell updates left it.         *)
(***************************************************************************)
ZeroOverlap(rec) ==
    \A h \in 1..Len(header_to_col_num) :
        ~Truthy(DictGetOrNone(rec, header_to_col_num[h][1]))
AppendPhaseOver ==
    upsert /\ pc \in {"sort", "done", "failed"} /\ CallsOfKind("batchUpdate") # {}
ZeroOverlapQueued == {q \in 1..Len(rows_to_append) : ZeroOverlap(rows_to_append[q])}

C11_NoOverlapFailsAppend ==
    (AppendPhaseOver /\ ZeroOverlapQueued # {})
        => /\ pc = "failed"
           /\ raised = "NoMatchingColumns"
           /\ Kinds(calls) = <<"get", "batchUpdate">>
           /\ edited # "run" => sink = SinkAfterUpdates

(***************************************************************************)
(* C12.  A record that the classification loop puts on the update path     *)
(* (it sets a primary-key field and its key tuple is in the key index) and *)
(* none of whose non-key fields is in the header map makes smart_update    *)
(* fail with NoUpdatableColumns at that record, before any write; a record *)
(* that carries primary-key fields only is such a record.                  *)
(***************************************************************************)
OnUpdatePath(i) == i \in 1..Len(routes) /\ HasKey(given[i]) /\ Indexed(given[i])
KeyFieldsOnly(rec) == \A f \in 1..Len(rec) : IsPrimaryKey(rec[f][1])

C12_NoUpdatableColumnsFails ==
    \A i \in 1..Len(routes) :
        /\ (OnUpdatePath(i) /\ UpdatableFields(given[i]) = {})
              => /\ routes[i] = "NoUpdatableColumns"
                 /\ i = Len(routes)
                 /\ pc = "failed"
                 /\ raised = "NoUpdatableColumns"
                 /\ RequestsOf(i) = {}
                 /\ Kinds(calls) = <<"get">>
                 /\ sink = sink0
        /\ (OnUpdatePath(i) /\ KeyFieldsOnly(given[i])) => UpdatableFields(given[i]) = {}
        /\ routes[i] = "NoUpdatableColumns"
              => (OnUpdatePath(i) /\ UpdatableFields(given[i]) = {})

\* the second record of the batch carried key fields only and matched a row;
\* the first one had produced a cell update
C12_Witness ==
    /\ pc = "failed"
    /\ raised = "NoUpdatableColumns"
    /\ Len(routes) = 2
    /\ routes[1] = "update"
    /\ KeyFieldsOnly(given[2])
    /\ update_requests # << >>

(***************************************************************************)
(* C13.  The header map has exactly one entry per non-empty cell of the    *)
(* header row, keyed by the sanitized text of the cell and valued by its   *)
(* 0-based column; a column whose header cell is empty has no entry.       *)
(***************************************************************************)
HeaderFound == pc \in {"idle", "fetched"}
HeaderRow == sheet_data[header_row_num + 1]
EntriesOfCol(c) == {h \in 1..Len(header_to_col_num) : header_to_col_num[h][2] = c}

C13_OneEntryPerNonEmptyHeaderCell ==
    HeaderFound
        => /\ \A c \in 0..(Len(HeaderRow) - 1) :
                 IF HeaderRow[c + 1] # EMPTY
                 THEN /\ Cardinality(EntriesOfCol(c)) = 1
                      /\ \A h \in EntriesOfCol(c) :
                            header_to_col_num[h][1] = SanitizeHeader(HeaderRow[c + 1])
                 ELSE EntriesOfCol(c) = {}
           /\ \A h \in 1..Len(header_to_col_num) :
                 header_to_col_num[h][2] \in 0..(Len(HeaderRow) - 1)

(***************************************************************************)
(* C14.  When no row of the fetched grid has a cell that matches an        *)
(* expected header name, the fetch fails with HeaderNotFound, in the       *)
(* constructor and at the start of a run, and the run issues no write      *)
(* call: the sheet stays as it was.                                        *)
(***************************************************************************)
NoMatchIn(grid) == SinkGet(grid) # << >> /\ MatchingRows(SinkGet(grid)) = {}

C14_NoHeaderNoWrite ==
    /\ (pc \in {"idle", "ctor_failed"} /\ edited = "no" /\ NoMatchIn(sink))
          => (pc = "ctor_failed" /\ raised = "HeaderNotFound" /\ Kinds(calls) = <<"get">>)
    /\ (InRun /\ NoMatchIn(sink0))
          => /\ pc = "failed"
             /\ raised = "HeaderNotFound"
             /\ Kinds(calls) = <<"get">>
             /\ sink = sink0
             /\ update_requests = << >>
             /\ rows_to_append = << >>

\* the header row was deleted after the constructor found it, and the fetch of
\* the run failed
C14_Witness ==
    /\ pc = "failed"
    /\ raised = "HeaderNotFound"
    /\ edited = "idle"
    /\ NoMatchIn(sink0)
    /\ header_row_num >= 0

(***************************************************************************)
(* C15.  smart_get returns one keyed mapping per fetched row strictly      *)
(* below the header row that has a non-empty cell in a column of the       *)
(* header map, in the order of the grid; the mapping holds (name, value)   *)
(* exactly for the columns of the header map that lie within the row and   *)
(* whose cell is non-empty.  A row shorter than a column raises nothing,   *)
(* and a row without such a cell is dropped.                               *)
(***************************************************************************)
\* the names of the header map whose cell in fetched row r is non-empty
FilledNames(r) ==
    {header_to_col_num[h][1] : h \in
        {h2 \in 1..Len(header_to_col_num) :
            /\ header_to_col_num[h2][2] < Len(sheet_data[r + 1])
            /\ sheet_data[r + 1][header_to_col_num[h2][2] + 1] # EMPTY}}
KeptRows == {r \in (header_row_num + 1)..(Len(sheet_data) - 1) : FilledNames(r) # {}}
\* the q-th kept row, from the top
KeptRow(q) == CHOOSE r \in KeptRows : Cardinality({r2 \in KeptRows : r2 < r}) = q - 1

C15_SmartGetKeyedRows ==
    pc = "fetched"
        => /\ Len(current_sheet_data_smart) = Cardinality(KeptRows)
           /\ \A q \in 1..Len(current_sheet_data_smart) :
                 LET row_result == current_sheet_data_smart[q]
                     r == KeptRow(q)
                 IN  /\ DictKeys(row_result) = FilledNames(r)
                     /\ Len(row_result) = Cardinality(FilledNames(r))
                     /\ \A e \in 1..Len(row_result) :
                           row_result[e][2] =
                               sheet_data[r + 1][HeaderCol(row_result[e][1]) + 1]

\* a blank row was dropped and the row under it, shorter than the header row,
\* was kept
C15_Witness ==
    /\ pc = "fetched"
    /\ Len(current_sheet_data_smart) = 1
    /\ sheet_data[header_row_num + 2] = << >>
    /\ KeptRows = {header_row_num + 2}
    /\ Len(sheet_data[header_row_num + 3]) < Len(HeaderRow)

(***************************************************************************)
(* C16.  Every error ends the run and nothing is rolled back: in a failed  *)
(* run the write calls issued are those of the phases before the one that  *)
(* raised, no call follows the raise, and the sheet holds the effects of   *)
(* the calls that completed (the batched cell updates when the append      *)
(* phase raised; those and the appended rows when the sort phase raised).  *)
(***************************************************************************)
\* the sheet after the batched cell updates and the append call of the run,
\* when nobody else writes
SinkAfterAppend ==
    IF CallsOfKind("append") = {} THEN SinkAfterUpdates
    ELSE LET c == calls[CHOOSE i \in CallsOfKind("append") : TRUE]
         IN  SinkAppend(SinkAfterUpdates, c.arg.range, c.arg.values)
FetchErrors == {"HeaderNotFound", "AssertionError"}
ClassifyErrors == {"MissingPrimaryKey", "UnknownRecord", "NoUpdatableColumns"}
AppendErrors == {"NoMatchingColumns", "IndexError"}

C16_FailedRunKeepsCompletedWrites ==
    pc = "failed"
        => /\ raised \in FetchErrors \cup ClassifyErrors \cup AppendErrors \cup {"UnknownSortColumn"}
           /\ raised \in FetchErrors \cup ClassifyErrors
                 => (Kinds(calls) = <<"get">> /\ sink = sink0)
           /\ raised \in AppendErrors
                 => /\ upsert
                    /\ Kinds(calls) = <<"get", "batchUpdate">>
                    /\ calls[2].arg.data = update_requests
                    /\ edited # "run" => sink = SinkAfterUpdates
           /\ raised = "UnknownSortColumn"
                 => /\ Kinds(calls) = <<"get">> \o AppendDone
                    /\ calls[2].arg.data = update_requests
                    /\ edited # "run" => sink = SinkAfterAppend

\* the sort phase raised after cell updates and appended rows had changed the
\* sheet
C16_Witness ==
    /\ pc = "failed"
    /\ raised = "UnknownSortColumn"
    /\ edited # "run"
    /\ update_requests # << >>
    /\ rows_to_append # << >>
    /\ SinkAfterUpdates # sink0
    /\ sink # SinkAfterUpdates

(***************************************************************************)
(* C17.  As claimed: the row range of the sort request issued by           *)
(* smart_sort starts at header_row + 1 and ends at MAX_ROWS, over the      *)
(* columns 0..MAX_COLS.                                                    *)
(***************************************************************************)
C17_SortRangeStartsBelowHeader ==
    \A i \in CallsOfKind("sort") :
        calls[i].arg.range =
            [min_row |-> header_row_num + 1, max_row |-> MAX_ROWS,
             min_col |-> 0, max_col |-> MAX_COLS]

(***************************************************************************)
(* C17, amended.  The row range of the sort request starts at the header   *)
(* row itself, which is the header line of the basic filter, and ends at   *)
(* MAX_ROWS, over the columns 0..MAX_COLS; the rows reordered are those    *)
(* strictly below the header row: the header row and the rows above it     *)
(* stay where they are, and the rows below are the same rows in some order.*)
(***************************************************************************)
CountIn(rows, x) == Cardinality({i \in 1..Len(rows) : rows[i] = x})
SamePlacesDownTo(g1, g2, r) == SubSeq(g1, 1, r + 1) = SubSeq(g2, 1, r + 1)
SameRowsBelow(g1, g2, r) ==
    /\ Len(g1) = Len(g2)
    /\ \A i \in (r + 2)..Len(g1) :
          CountIn(SubSeq(g1, r + 2, Len(g1)), g1[i]) = CountIn(SubSeq(g2, r + 2, Len(g2)), g1[i])

C17_SortRangeFromHeaderRow ==
    \A i \in CallsOfKind("sort") :
        /\ calls[i].arg.range =
              [min_row |-> header_row_num, max_row |-> MAX_ROWS,
               min_col |-> 0, max_col |-> MAX_COLS]
        /\ edited # "run"
              => /\ SamePlacesDownTo(sink, SinkAfterAppend, header_row_num)
                 /\ SameRowsBelow(sink, SinkAfterAppend, header_row_num)

\* a sort call that changed the order of the rows below the header row
C17_Witness ==
    /\ pc = "done"
    /\ CallsOfKind("sort") # {}
    /\ edited # "run"
    /\ sink # SinkAfterAppend
    /\ sink[header_row_num + 1] = HdrMain

(***************************************************************************)
(* C18.  smart_sort with a column name that is not in the header map fails *)
(* with UnknownSortColumn and issues no sort request; with a name that is  *)
(* in it, it issues exactly one sort request, on the column of that name   *)
(* and with the direction asked for.                                       *)
(***************************************************************************)
SortAsked == pc \in {"done", "failed"} /\ Truthy(sort_key)
Direction(asc) == IF asc THEN "ASCENDING" ELSE "DESCENDING"

C18_SortColumnResolved ==
    /\ (SortAsked /\ ~DictHas(header_to_col_num, sort_key))
          => /\ pc = "failed"
             /\ raised = "UnknownSortColumn"
             /\ CallsOfKind("sort") = {}
             /\ edited # "run" => sink = SinkAfterAppend
    /\ (SortAsked /\ DictHas(header_to_col_num, sort_key))
          => /\ pc = "done"
             /\ raised = "none"
             /\ Cardinality(CallsOfKind("sort")) = 1
             /\ \A i \in CallsOfKind("sort") :
                   /\ i = Len(calls)
                   /\ calls[i].arg.dimensionIndex = HeaderCol(sort_key)
                   /\ calls[i].arg.sortOrder = Direction(sort_asc)
    /\ ~SortAsked => CallsOfKind("sort") = {}

\* a descending sort on a column of the header map, after an append
C18_Witness ==
    /\ pc = "done"
    /\ Truthy(sort_key)
    /\ ~sort_asc
    /\ CallsOfKind("sort") # {}
    /\ CallsOfKind("append") # {}
    /\ rows_to_append # << >>

(***************************************************************************)
(* C19.  When no other writer changes the sheet between the fetch of the   *)
(* run and its batched cell update, every update-path write lands on a row *)
(* whose primary-key cells equal the key of the record it was made for.    *)
(* (With such a change a write can land on a row of another key: see       *)
(* C19_StaleRowPossible.)                                                  *)
(***************************************************************************)
LandsOnOwnRow(j, grid) ==
    CellKey(grid, A1Row(update_requests[j].range)) = KeyOf(given[update_requests[j].record])

C19_UpdatesLandOnKeyedRow ==
    (pc \in {"update", "append", "sort", "done"} /\ edited # "run")
        => \A j \in 1..Len(update_requests) : LandsOnOwnRow(j, sink0)

\* a row inserted by another writer after the fetch: the write went to a row of
\* another key although the fetched grid had no blank row above the matched row
C19_StaleRowPossible ==
    /\ pc = "append"
    /\ edited = "run"
    /\ \A r \in KeyedRows(sheet_data) :
          DictGet(primary_keys_to_row_num, CellKey(sheet_data, r)) = r
    /\ \E j \in 1..Len(update_requests) :
          /\ LandsOnOwnRow(j, sheet_data)
          /\ ~LandsOnOwnRow(j, EditedSheet(sink0, -1))

(***************************************************************************)
(* C20.  smart_update and smart_append never change the caller's records:  *)
(* from the classification on, whether the run succeeds or fails, the list *)
(* of records and every record in it are as the caller handed them over,   *)
(* and the append queue holds records of that list, unchanged.             *)
(***************************************************************************)
Classified == pc \in {"update", "append", "sort", "done", "failed"} /\ given # << >>
QueuedFrom == {i \in 1..Len(routes) : routes[i] = "append"}

C20_RecordsNotMutated ==
    Classified
        => /\ values = given
           /\ Len(rows_to_append) = Cardinality(QueuedFrom)
           /\ \A q \in 1..Len(rows_to_append) :
                 \E i \in QueuedFrom :
                     /\ Cardinality({i2 \in QueuedFrom : i2 < i}) = q - 1
                     /\ rows_to_append[q] = given[i]

\* a run that updated a row for its first record, queued the second and failed
\* in the append phase
C20_Witness ==
    /\ pc = "failed"
    /\ raised = "NoMatchingColumns"
    /\ routes = <<"update", "append">>
    /\ Kinds(calls) = <<"get", "batchUpdate">>

(***************************************************************************)
(* C21.  smart_append takes as min_col and max_col the smallest and the    *)
(* largest column index of the header map, whatever header map the header  *)
(* search returned, and never stores a value outside the row buffer of     *)
(* width max_col + 1.                                                      *)
(***************************************************************************)
\* max_col: the largest column index present in the header map
LargestCol ==
    CHOOSE c \in {header_to_col_num[h][2] : h \in 1..Len(header_to_col_num)} :
        \A h \in 1..Len(header_to_col_num) : c >= header_to_col_num[h][2]

C21_MinMaxColOfHeaderMap ==
    AppendPhaseOver
        => /\ MinColNum(header_to_col_num) = SmallestCol
           /\ MaxColNum(header_to_col_num) = LargestCol
           /\ raised # "IndexError"
           /\ \A i \in CallsOfKind("append") :
                 /\ A1Col(calls[i].arg.range) = SmallestCol
                 /\ \A q \in 1..Len(calls[i].arg.values) :
                       Len(calls[i].arg.values[q]) = LargestCol + 1

(***************************************************************************)
(* C22.  A record that sets a primary-key field matches an existing row    *)
(* (is routed to the update path or fails there) exactly when some fetched *)
(* row below the header row has the same key tuple, slot by slot over the  *)
(* key fields in order; a key field the record does not set and a key cell *)
(* that is empty or absent are the placeholder, which equals only itself.  *)
(* Computing a key with missing fields raises nothing.                     *)
(***************************************************************************)
\* slot p of the key of record rec and of fetched row r, read without the
\* operator of the model
RecordSlot(rec, p) ==
    IF \E f \in 1..Len(rec) : rec[f][1] = primary_keys[p]
    THEN rec[CHOOSE f \in 1..Len(rec) : rec[f][1] = primary_keys[p]][2]
    ELSE None
RowSlot(r, p) ==
    IF /\ \E h \in 1..Len(header_to_col_num) : header_to_col_num[h][1] = primary_keys[p]
       /\ CellAt(sheet_data, r, HeaderCol(primary_keys[p])) # EMPTY
    THEN CellAt(sheet_data, r, HeaderCol(primary_keys[p]))
    ELSE None
SameKey(rec, r) == \A p \in 1..Len(primary_keys) : RecordSlot(rec, p) = RowSlot(r, p)
RowsBelowHeader == (header_row_num + 1)..(Len(sheet_data) - 1)
Matched(i) == routes[i] \in {"update", "NoUpdatableColumns"}

C22_MatchIsSlotwiseKeyEquality ==
    \A i \in 1..Len(routes) :
        /\ routes[i] # "MissingPrimaryKey"
              => (Matched(i) <=> \E r \in RowsBelowHeader : SameKey(given[i], r))
        /\ routes[i] = "MissingPrimaryKey"
              => \A p \in 1..Len(primary_keys) : RecordSlot(given[i], p) = None

\* a record that sets one key field was not matched with a row that has the
\* same value there and a value in the key field the record leaves out
C22_Witness ==
    /\ pc = "update"
    /\ \E i \in 1..Len(routes) :
          /\ routes[i] = "append"
          /\ \E r \in RowsBelowHeader :
                /\ RecordSlot(given[i], 1) = RowSlot(r, 1)
                /\ RecordSlot(given[i], 2) = None
                /\ RowSlot(r, 2) # None

(***************************************************************************)
(* C23.  When several fetched rows below the header row have the same key  *)
(* tuple, the key index holds the row number of the lowest of them, and a  *)
(* record with that key is written only on that row; a row that sets no    *)
(* primary-key field has no entry in the index.                            *)
(***************************************************************************)
RowsOfKey(key) == {r \in KeyedRows(sheet_data) : CellKey(sheet_data, r) = key}
LatestRowOfKey(key) == CHOOSE r \in RowsOfKey(key) : \A r2 \in RowsOfKey(key) : r2 <= r

C23_LatestDuplicateWins ==
    pc \in {"fetched", "update"}
        => /\ \A r \in KeyedRows(sheet_data) :
                 /\ DictHas(primary_keys_to_row_num, CellKey(sheet_data, r))
                 /\ DictGet(primary_keys_to_row_num, CellKey(sheet_data, r))
                       = LatestRowOfKey(CellKey(sheet_data, r))
           /\ \A e \in 1..Len(primary_keys_to_row_num) :
                 RowsOfKey(primary_keys_to_row_num[e][1]) # {}
           /\ \A j \in 1..Len(update_requests) :
                 A1Row(update_requests[j].range)
                     = LatestRowOfKey(KeyOf(given[update_requests[j].record]))

\* without a blank row above them the later of two rows of one key is the one
\* indexed and written (the part of the claim the code does fulfil)
C23_LaterRowWritten ==
    /\ pc = "update"
    /\ \E r1, r2 \in KeyedRows(sheet_data) :
          /\ r1 < r2
          /\ CellKey(sheet_data, r1) = CellKey(sheet_data, r2)
          /\ \E j \in 1..Len(update_requests) : A1Row(update_requests[j].range) = r2

\* below a blank row the write goes to the earlier of two rows of one key
C23_EarlierDuplicateWritten ==
    /\ pc = "update"
    /\ \E r1, r2 \in KeyedRows(sheet_data) :
          /\ r1 < r2
          /\ CellKey(sheet_data, r1) = CellKey(sheet_data, r2)
          /\ \E j \in 1..Len(update_requests) : A1Row(update_requests[j].range) = r1

(***************************************************************************)
(* C24.  When two distinct raw cells of the header row (the first row with *)
(* a cell matching an expected header name) sanitize to the same name, the *)
(* header search does not fail and the header map maps that name to the    *)
(* column of the later cell.                                               *)
(***************************************************************************)
FirstMatchingRow(grid) ==
    CHOOSE r \in MatchingRows(grid) : \A r2 \in MatchingRows(grid) : r <= r2
SameNameCells(row) ==
    {cc \in (1..Len(row)) \X (1..Len(row)) :
        /\ cc[1] < cc[2]
        /\ row[cc[1]] # row[cc[2]]
        /\ SanitizeHeader(row[cc[1]]) = SanitizeHeader(row[cc[2]])}
LastCellOfName(row, name) ==
    CHOOSE c \in 1..Len(row) :
        /\ SanitizeHeader(row[c]) = name
        /\ \A c2 \in 1..Len(row) : SanitizeHeader(row[c2]) = name => c2 <= c
HasSameNameCells(grid) ==
    /\ MatchingRows(grid) # {}
    /\ SameNameCells(grid[FirstMatchingRow(grid) + 1]) # {}

C24_LaterSameNameHeaderWins ==
    (pc \in {"idle", "ctor_failed", "fetched"} /\ HasSameNameCells(sheet_data))
        => /\ raised # "HeaderNotFound"
           /\ header_row_num = FirstMatchingRow(sheet_data)
           /\ LET row == sheet_data[FirstMatchingRow(sheet_data) + 1]
              IN  \A cc \in SameNameCells(row) :
                     /\ DictHas(header_to_col_num, SanitizeHeader(row[cc[2]]))
                     /\ DictGet(header_to_col_num, SanitizeHeader(row[cc[2]]))
                           = LastCellOfName(row, SanitizeHeader(row[cc[2]])) - 1

\* below a title row the search succeeds and the name maps to the later cell
C24_LaterCellMapped ==
    /\ pc = "idle"
    /\ HasSameNameCells(sheet_data)
    /\ \A cc \in SameNameCells(HeaderRow) :
          DictGet(header_to_col_num, SanitizeHeader(HeaderRow[cc[2]])) = cc[2] - 1

(***************************************************************************)
(* C25.  Classification is fail-fast before any write: when some record of *)
(* the batch cannot be classified (no primary-key field; key not indexed   *)
(* with upsert = false; key indexed but no updatable column), the run      *)
(* fails with a classification error after the fetch as its only call, no  *)
(* cell update, append or sort has been issued and the sheet is as it was  *)
(* fetched, whatever the records before the failing one had queued.        *)
(***************************************************************************)
FailsClassification(rec) ==
    \/ ~HasKey(rec)
    \/ HasKey(rec) /\ NotIndexed(rec) /\ ~upsert
    \/ HasKey(rec) /\ Indexed(rec) /\ UpdatableFields(rec) = {}
WriteCalls == CallsOfKind("batchUpdate") \cup CallsOfKind("append") \cup CallsOfKind("sort")

C25_ClassificationFailsBeforeWrites ==
    (Classified /\ \E i \in 1..Len(given) : FailsClassification(given[i]))
        => /\ pc = "failed"
           /\ raised \in ClassifyErrors
           /\ WriteCalls = {}
           /\ Len(calls) = 1
           /\ sink = sink0
           /\ FailsClassification(given[Len(routes)])
           /\ \A i \in 1..(Len(routes) - 1) : ~FailsClassification(given[i])

\* the second record failed after the first had queued a cell update
C25_Witness ==
    /\ pc = "failed"
    /\ raised \in ClassifyErrors
    /\ Len(routes) = 2
    /\ routes[1] = "update"
    /\ update_requests # << >>
    /\ SinkAfterUpdates # sink0
    /\ sink = sink0

(***************************************************************************)
(* C26.  Upsert is idempotent on the set of rows: when smart_update with   *)
(* upsert = true has returned and is run again with the same batch on a    *)
(* sheet nobody else writes to, the second run fails on no record, queues  *)
(* no row for the append (every record takes the update path) and leaves   *)
(* the rows of the sheet what they were after the first run, up to their   *)
(* order.  Checked under SpecTwice.                                        *)
(***************************************************************************)
SecondRun == returned # << >>
SameRowsUpToOrder(g1, g2) ==
    /\ Len(g1) = Len(g2)
    /\ \A i \in 1..Len(g1) : CountIn(g1, g1[i]) = CountIn(g2, g1[i])

C26_UpsertIdempotent ==
    (SecondRun /\ pc \in {"update", "append", "sort", "done", "failed"})
        => /\ raised \notin ClassifyErrors \cup AppendErrors
           /\ rows_to_append = << >>
           /\ \A i \in 1..Len(routes) : routes[i] = "update"
           /\ pc = "done" => SameRowsUpToOrder(SinkGet(sink), SinkGet(returned[1].sink))

\* the one record of the batch took the update path in the second run, which
\* changed a cell the first run had left
C26_SecondRunChangesRows ==
    /\ SecondRun
    /\ pc = "done"
    /\ Len(given) = 1
    /\ rows_to_append = << >>
    /\ ~SameRowsUpToOrder(SinkGet(sink), SinkGet(returned[1].sink))

\* a record appended by the first run makes the second run fail
C26_SecondRunFails ==
    /\ SecondRun
    /\ pc = "failed"
    /\ raised = "NoUpdatableColumns"

(***************************************************************************)
(* C27.  Key uniqueness is preserved by a run: when no two rows below the  *)
(* header row of the fetched sheet have the same key tuple, a completed    *)
(* smart_update run with upsert = true on a sheet nobody else writes to    *)
(* during the run leaves no two rows below the header row with the same    *)
(* key tuple, whatever the batch.                                          *)
(***************************************************************************)
CompletedUpsert == pc = "done" /\ upsert /\ edited # "run"

C27_KeyUniquenessPreserved ==
    (CompletedUpsert /\ KeysDistinct(sink0)) => KeysDistinct(sink)

\* the keys stay distinct when the records of the batch have distinct keys
BatchKeysDistinct ==
    \A i, j \in 1..Len(given) : i # j => KeyOf(given[i]) # KeyOf(given[j])
C27_DistinctBatchKeepsKeysDistinct ==
    (CompletedUpsert /\ KeysDistinct(sink0) /\ BatchKeysDistinct) => KeysDistinct(sink)

(***************************************************************************)
(* C28.  Cache consistency of the client: once the constructor has         *)
(* returned, the cached header map and header row number are what the      *)
(* header search gives on the cached sheet data, also after a full-range   *)
(* get() whose header search raised.                                       *)
(***************************************************************************)
Constructed == pc \notin {"new", "ctor_failed"}

C28_CacheConsistent ==
    Constructed
        => LET found == FindHeaders(sheet_data, possible_headers)
           IN  /\ ~found.raised
               /\ header_to_col_num = found.header_to_col_num
               /\ header_row_num = found.header_row_num

(***************************************************************************)
(* C29.  update_google_sheet writes the sheet metadata only after          *)
(* smart_update has returned, as the last call of the run, and only into   *)
(* column 0 of the len(metadata) rows immediately above the header row: no *)
(* cell of the header row or below it changes.  With fewer than            *)
(* len(metadata) rows above the header row it fails by its assertion, no   *)
(* metadata is written and the sheet stays as smart_update left it, with   *)
(* its updates, appends and sort.  Stated for a sheet no other writer      *)
(* changes during the run; checked under SpecScript.                       *)
(***************************************************************************)
MetadataCalls == CallsOfKind("update")
MetadataRows == (header_row_num - Len(SheetMetadata(given)))..(header_row_num - 1)
ChangedCells(g1, g2) ==
    {rc \in (0..(Max2(Len(g1), Len(g2)) - 1)) \X (0..Max2(Width(g1), Width(g2))) :
        CellAt(g1, rc[1], rc[2]) # CellAt(g2, rc[1], rc[2])}

SinkAfterAppendSorted ==
    SinkSort(SinkAfterAppend, calls[CHOOSE i \in CallsOfKind("sort") : TRUE].arg)

C29_AssertionRaised ==
    /\ pc = "meta_failed"
    /\ header_row_num = 1
    /\ sink # sink0

(***************************************************************************)
(* C30.  As claimed: the pagination loop of scrape_search_results ends for *)
(* every zipcode whenever each page fetch returns.  The page counter goes  *)
(* up by one per iteration and is the page requested; num_pages is set     *)
(* after the first page (to the parsed value, or 1) and stays; the loop    *)
(* goes on exactly while the page gave a result, the results of the        *)
(* zipcode do not exceed MAX_SEARCH_RESULTS and current_page < num_pages;   *)
(* so at most num_pages pages are requested per zipcode.  Checked under    *)
(* SpecScrape.                                                             *)
(***************************************************************************)
ScrapeOver == spc \in {"returned", "raised"}
PageParsed == spc = "decide" \/ (spc = "while" /\ current_page >= 1)
PagesCounted == requests = [i \in 1..current_page |-> i]
NumPagesSet ==
    PageParsed
        => /\ num_pages # << >>
           /\ \E text \in PageCountTexts :
                 /\ ~ParseNumResultPages(text).raised
                 /\ num_pages = (IF ParseNumResultPages(text).value \in {<< >>, <<0>>}
                                 THEN <<1>> ELSE ParseNumResultPages(text).value)
LoopGoesOnWhile ==
    (spc = "while" /\ current_page >= 1)
        => (continue_loop <=> /\ new_results # 0
                              /\ search_results <= MAX_SEARCH_RESULTS
                              /\ current_page < num_pages[1])
NumPagesStays == (num_pages # << >> /\ current_page' # 0) => num_pages' = num_pages

C30_AtMostNumPagesRequested ==
    /\ [](PagesCounted /\ NumPagesSet /\ LoopGoesOnWhile)
    /\ [][NumPagesStays]_vars
    /\ [](num_pages # << >> => Len(requests) <= num_pages[1])
    /\ <>ScrapeOver

(***************************************************************************)
(* C30, amended.  The same, with the number of pages requested per zipcode *)
(* at most num_pages or one, whichever is larger: the first page is        *)
(* requested before num_pages is known, also when the parsed page count is *)
(* negative.                                                               *)
(***************************************************************************)
C30_AtMostNumPagesOrOneRequested ==
    /\ [](PagesCounted /\ NumPagesSet /\ LoopGoesOnWhile)
    /\ [][NumPagesStays]_vars
    /\ [](num_pages # << >> => Len(requests) <= Max2(num_pages[1], 1))
    /\ <>ScrapeOver

\* the loop of the second zipcode stopped at the last page of a count above
\* one, with results on every page and fewer than the limit
C30_Witness ==
    /\ spc = "while"
    /\ ~continue_loop
    /\ zipcodes_left = 0
    /\ results > 0
    /\ num_pages # << >>
    /\ num_pages[1] >= 2
    /\ current_page = num_pages[1]
    /\ new_results > 0
    /\ search_results <= MAX_SEARCH_RESULTS

\* a negative page count: one page requested
C30_NegativePageCount ==
    /\ num_pages = <<-1>>
    /\ Len(requests) = 1

====
